---- MODULE Spec2Model ----
(***************************************************************************)
(* Model of the dynamic-library lifecycle engine of dlopen-rs:             *)
(* the process-wide registry (MANAGER), dlopen transactions (OpenContext)  *)
(* and handle drops (impl Drop for ElfLibrary).                            *)
(*                                                                         *)
(* A critical section of the registry lock is one action; `writer` is the   *)
(* thread that still holds the write lock when its action has ended.       *)
(* Strong reference counts are not stored: they are computed from the      *)
(* holders the code creates (registry entries, searchlist slices, handles, *)
(* the vectors of an in-flight OpenContext).  Only holders that the        *)
(* sources of this crate create are counted; references that the           *)
(* elf_loader crate may keep inside a relocated image are not modelled.    *)
(***************************************************************************)
EXTENDS Integers, Sequences, FiniteSets, Bags, TLC

(***************************************************************************)
(* Bounds of the model.                                                    *)
(***************************************************************************)
NThreads == 2
MaxLoads == 5
MaxHandles == 3
MaxNodes == 3
MaxDestructors == 3
\* Addresses: the library with base b is mapped at b * MappedLen and is
\* MappedLen long.
MappedLen == 2

Threads == 1..NThreads

(***************************************************************************)
(* The file system the loader sees.  A path is a sequence of components;   *)
(* a path of length 1 is a bare short name (it contains no '/').           *)
(*   a : needs b                   relocates                               *)
(*   b : needs nothing             relocates                               *)
(*   x : needs b and p             has an undefined symbol: relocation     *)
(*                                 fails                                   *)
(*   p : needs nothing, lives outside the search directories               *)
(*   libc.so.6, ld-musl-x86_64.so.1 : runtime libraries, need nothing      *)
(*   r : needs a                   relocates                               *)
(*   s : needs b and a             relocates                               *)
(*   c : needs d;  d : needs c     relocate                                *)
(* The host linker has mapped the program itself (empty name, short name   *)
(* "main", needs libc.so.6) and its libc.so.6.                             *)
(***************************************************************************)
Files == { <<"lib", "a">>, <<"lib", "b">>, <<"lib", "x">>, <<"opt", "p">>,
           <<"lib", "libc.so.6">>, <<"lib", "ld-musl-x86_64.so.1">>,
           <<"lib", "r">>, <<"lib", "c">>, <<"lib", "d">>, <<"lib", "s">> }
DEFAULT_PATH == << <<"lib">>, <<"usr", "lib">> >>
OpenPaths == { <<"a">>, <<"b">>, <<"x">>, <<"opt", "p">> }
OpenFlagSets == { {}, {"GLOBAL"} }

Needed(name) ==
  CASE name = "a" -> <<"b">>
    [] name = "x" -> <<"b", "p">>
    [] name = "main" -> <<"libc.so.6">>
    [] name = "r" -> <<"a">>
    [] name = "s" -> <<"b", "a">>
    [] name = "c" -> <<"d">>
    [] name = "d" -> <<"c">>
    [] OTHER -> <<>>

RelocationFails(name) == name = "x"

(***************************************************************************)
(* DylibState: the u8 encoding.                                            *)
(***************************************************************************)
RELOCATED == 255
RELOCATING == 254

\* A check that takes a library in relocation for a relocated one.
is_not_new(state) == state >= RELOCATING

is_relocated(state) == state = RELOCATED

has_new_idx(state) == state < RELOCATING

set_new_idx(idx) == idx % 256

(***************************************************************************)
(* Values.                                                                 *)
(***************************************************************************)
Lib(name, base) == [name |-> name, base |-> base]
NoLib == [name |-> "", base |-> 0]
NoDeps == [kind |-> "none", libs |-> <<>>]

Min(S) == CHOOSE m \in S : \A n \in S : m <= n

Range(s) == { s[i] : i \in DOMAIN s }

ShortName(path) == path[Len(path)]

join(dir, file_name) == Append(dir, file_name)

(***************************************************************************)
(* IndexMap operations on `all` (keyed by lib.name) and `global`.          *)
(***************************************************************************)
AllIdx(a, name) ==
  IF \E i \in DOMAIN a : a[i].lib.name = name
  THEN CHOOSE i \in DOMAIN a : a[i].lib.name = name
  ELSE 0

GlobalIdx(g, name) ==
  IF \E i \in DOMAIN g : g[i].name = name
  THEN CHOOSE i \in DOMAIN g : g[i].name = name
  ELSE 0

AllInsert(a, rec) ==
  LET i == AllIdx(a, rec.lib.name)
  IN IF i = 0 THEN Append(a, rec) ELSE [a EXCEPT ![i] = rec]

GlobalPos(g, lib) ==
  IF \E i \in DOMAIN g : g[i] = lib
  THEN CHOOSE i \in DOMAIN g : g[i] = lib
  ELSE 0

GlobalInsert(g, lib) ==
  LET i == GlobalIdx(g, lib.name)
  IN IF i = 0 THEN Append(g, lib) ELSE [g EXCEPT ![i] = lib]

AllShiftRemove(a, name) == SelectSeq(a, LAMBDA r : r.lib.name # name)

GlobalShiftRemove(g, name) == SelectSeq(g, LAMBDA l : l.name # name)

truncate(s, len) == IF len < Len(s) THEN SubSeq(s, 1, len) ELSE s

(***************************************************************************)
(* State.                                                                  *)
(***************************************************************************)
VARIABLES
  all,        \* Manager.all: sequence of [lib, flags, deps, state]
  global,     \* Manager.global: sequence of libs
  adds,       \* Manager.adds
  subs,       \* Manager.subs
  writer,     \* thread holding the write lock of MANAGER, 0 when free
  pc,         \* position of each thread in its dlopen call
  ctx,        \* the OpenContext (and locals of dlopen_impl) of each thread
  handles,    \* bag of live ElfLibrary values owned by user code
  nextBase,   \* number of objects the loader has mapped so far
  finalized,  \* bases of the libraries whose destructors were run
  last,       \* history: the dlopen call that returned a handle last
  once,       \* ONCE of init(): host objects adopted so far, then complete
  ret,        \* what the last call of this() or dlsym_default returned
  env,        \* the process environment and the files the loader can map
  call,       \* the arguments and the result of the last call of a function
  DESTRUCTORS,\* the queue of registered destructors
  ran,        \* history: the destructors that were run, in the order run
  link_map,   \* the LinkMap nodes: l_prev, l_next and who owns the node
  DEBUG,      \* CustomDebug: the r_debug in use and the tracked tail
  r_debug,    \* the two GDBDebug structures: map and state
  fault       \* a null or dangling pointer was dereferenced

\* The state outside the registry of libraries.
aux == <<env, call, DESTRUCTORS, ran, link_map, DEBUG, r_debug, fault>>

\* The registry of libraries and the calls in flight on it.
registry == <<all, global, adds, subs, writer, pc, ctx, handles, nextBase,
              finalized, last, once, ret>>

vars == <<registry, aux>>

IdleCtx ==
  [path |-> <<>>, flags |-> {}, old_all_len |-> 0, old_global_len |-> 0,
   new_libs |-> <<>>, dep_libs |-> <<>>, order |-> <<>>, k |-> 0,
   deps |-> NoDeps, global_libs |-> <<>>, saw |-> "nothing"]

\* No environment variable of the loader is set, no ld.so.cache.
\* LD_CACHE is what cache.lookup returns for the name looked up, files are
\* the paths (as strings) that from_file maps.
Env0 == [LD_BIND_NOW |-> "unset", LD_LIBRARY_PATH |-> <<>>, LD_CACHE |-> <<>>,
         files |-> {}]

NoCall == [fn |-> "none"]

NULL == 0

\* The link_map nodes of the host linker (11 and 12, chained) and the nodes
\* of the libraries this loader maps (1..MaxNodes, not yet allocated).
Nodes == 1..MaxNodes \cup {11, 12}

RT_CONSISTENT == 0
RT_ADD == 1
RT_DELETE == 2

NoRet == [op |-> "none", sym |-> "", lib |-> NoLib]

NoLast ==
  [t |-> 0, name |-> "", flags |-> {}, base |-> 0, all_len |-> 0,
   global_len |-> 0]

\* The value of `last` in the behaviours that keep no history.
NoHistory == [NoLast EXCEPT !.t = -1]

\* The process starts with the environment e.
Boot(history, e) ==
  /\ env = e
  /\ call = NoCall
  /\ DESTRUCTORS = <<>>
  /\ ran = <<>>
  /\ link_map =
       [n \in Nodes |->
          IF n = 11 THEN [l_prev |-> NULL, l_next |-> 12, owner |-> "host"]
          ELSE IF n = 12
               THEN [l_prev |-> 11, l_next |-> NULL, owner |-> "host"]
               ELSE [l_prev |-> NULL, l_next |-> NULL, owner |-> "none"]]
  /\ DEBUG = [debug |-> "INTERNAL", tail |-> NULL]
  /\ r_debug = [INTERNAL |-> [map |-> NULL, state |-> RT_CONSISTENT],
                HOST |-> [map |-> 11, state |-> RT_CONSISTENT]]
  /\ fault = FALSE
  /\ all = <<>>
  /\ global = <<>>
  /\ adds = 0
  /\ subs = 0
  /\ writer = 0
  /\ pc = [t \in Threads |-> "idle"]
  /\ ctx = [t \in Threads |-> IdleCtx]
  /\ handles = EmptyBag
  /\ nextBase = 0
  /\ finalized = {}
  /\ last = history
  /\ once = 0
  /\ ret = NoRet

Start(history) == Boot(history, Env0)

Init == Start(NoHistory)

\* lock_write!(MANAGER) and lock_read!(MANAGER) return when no thread holds
\* the write lock.  Every critical section is one action, so no reader is
\* inside one when an action starts.
CanWrite == writer = 0

CanRead == writer = 0

\* A relocate that keeps the guard instead of dropping it.
lock_kept(t) == t

\* drop(self.lock.take()): the write lock has no holder.
lock_take(t) == 0

\* `last` after a step of thread t that returns no handle.  A step of the
\* thread that made the recorded call keeps the record while it repeats the
\* call (again) and forgets it otherwise; a step of another thread keeps
\* the record, and the recorded sizes become unknown (-1) when that step
\* changes `all` or `global`.  The drop of a handle to the recorded library
\* (handles have no owner here) counts as a step of the recorded thread.
Keep(t, again, a2, g2) ==
  IF last.t <= 0 THEN last
  ELSE IF last.t = t THEN (IF again THEN last ELSE NoLast)
  ELSE IF a2 # all \/ g2 # global
       THEN [last EXCEPT !.all_len = -1, !.global_len = -1]
       ELSE last

(***************************************************************************)
(* Arc strong count of a library core: one per holder.                     *)
(*   - the GlobalDylib in `all` (inner), the entry in `global`;            *)
(*   - every live Arc<[LoadedDylib]> slice that contains it (a slice is    *)
(*     shared by the registry entry and the handles cloned from it);       *)
(*   - every ElfLibrary (inner);                                           *)
(*   - the dep_libs, the not yet relocated new_libs and the global_libs    *)
(*     snapshot of every OpenContext in flight.                            *)
(***************************************************************************)
LiveSlices(a, hs, cx) ==
  ({ a[i].deps : i \in DOMAIN a } \cup { h.deps : h \in BagToSet(hs) }
     \cup { cx[t].deps : t \in Threads }) \ {NoDeps}

SliceRefs(lib, a, hs, cx) ==
  Cardinality({ p \in UNION { { <<s, i>> : i \in DOMAIN s.libs } :
                              s \in LiveSlices(a, hs, cx) } :
                p[1].libs[p[2]] = lib })

HandleRefs(lib, hs) ==
  LET own == { h \in BagToSet(hs) : h.inner = lib }
  IN IF own = {} THEN 0 ELSE BagCardinality([h \in own |-> hs[h]])

ContextRefs(lib, c) ==
  Cardinality({ i \in DOMAIN c.dep_libs : c.dep_libs[i] = lib })
  + Cardinality({ i \in DOMAIN c.new_libs :
                  c.new_libs[i].lib = lib /\ ~c.new_libs[i].taken })
  + Cardinality({ i \in DOMAIN c.global_libs : c.global_libs[i] = lib })

RECURSIVE SumContextRefs(_, _, _)
SumContextRefs(lib, cx, ts) ==
  IF ts = {} THEN 0
  ELSE LET t == CHOOSE u \in ts : TRUE
       IN ContextRefs(lib, cx[t]) + SumContextRefs(lib, cx, ts \ {t})

strong_count(lib, a, g, hs, cx) ==
  Cardinality({ i \in DOMAIN a : a[i].lib = lib })
  + Cardinality({ i \in DOMAIN g : g[i] = lib })
  + SliceRefs(lib, a, hs, cx)
  + HandleRefs(lib, hs)
  + SumContextRefs(lib, cx, Threads)

(***************************************************************************)
(* register (core_impl/register.rs).  m is the Manager: [all, global,      *)
(* adds, subs].                                                            *)
(***************************************************************************)
\* str::contains
contains(str, pat) ==
  \E i \in 1..(Len(str) - Len(pat) + 1) :
    SubSeq(str, i, i + Len(pat) - 1) = pat

RuntimePatterns == { "libc.so", "libpthread.so", "libdl.so", "libgcc_s.so",
                     "ld-linux" }

is_runtime_name(shortname) ==
  \E pat \in RuntimePatterns : contains(shortname, pat)

\* name.is_empty(): shortname() is "main" for the object with the empty
\* name, and no file of Files is called main.
is_main(lib) == lib.name = "main"

register(lib, flags, m, state) ==
  IF "NOT_REGISTER" \in flags THEN m
  ELSE LET f == IF is_runtime_name(lib.name)
                THEN flags \cup {"NODELETE"} ELSE flags
       IN [m EXCEPT
             !.all = AllInsert(m.all, [lib |-> lib, flags |-> f,
                                       deps |-> NoDeps, state |-> state]),
             !.adds = m.adds + 1,
             !.global = IF "GLOBAL" \in f \/ is_main(lib)
                        THEN GlobalInsert(m.global, lib) ELSE m.global]

(***************************************************************************)
(* The locked phase of dlopen_impl works on a record st:                   *)
(*   m         the Manager under the write lock                            *)
(*   nextBase  the loader's mapping counter                                *)
(*   dep_libs, new_libs   the vectors of the OpenContext                   *)
(*   status    "ok", "err", or "panic" (an unwrap of None: the call        *)
(*             unwinds through the Drop of the OpenContext)                *)
(***************************************************************************)
from_file(path, base) == Lib(ShortName(path), base)

register_new(st, flags, path) ==
  LET lib == from_file(path, st.nextBase + 1)
      new_idx == Len(st.new_libs)
  IN [st EXCEPT
        !.m = register(lib, flags, st.m, set_new_idx(new_idx)),
        !.nextBase = st.nextBase + 1,
        !.dep_libs = Append(st.dep_libs, lib),
        !.new_libs = Append(st.new_libs, [lib |-> lib, taken |-> FALSE])]

\* find_library with empty RPATH/RUNPATH, no LD_LIBRARY_PATH and no cache:
\* the first default directory that holds the file.
Candidates(lib_name) ==
  SelectSeq([i \in DOMAIN DEFAULT_PATH |-> join(DEFAULT_PATH[i], lib_name)],
            LAMBDA c : c \in Files)

find_library(lib_name) ==
  IF Candidates(lib_name) = <<>> THEN <<>> ELSE Candidates(lib_name)[1]

\* The branch of load_deps for a name that is already a key in `all`.
use_existing(st, flags, lib_name) ==
  LET i == AllIdx(st.m.all, lib_name)
      lib == st.m.all[i]
  IN IF \E d \in Range(st.dep_libs) : d.name = lib_name THEN st
     ELSE IF "GLOBAL" \in flags /\ "GLOBAL" \notin lib.flags
          THEN [st EXCEPT
                  !.dep_libs = Append(st.dep_libs, lib.lib),
                  !.m.all[i].flags = flags,
                  !.m.global = GlobalInsert(st.m.global, lib.lib)]
          ELSE [st EXCEPT !.dep_libs = Append(st.dep_libs, lib.lib)]

RECURSIVE load_deps(_, _, _, _)
load_deps(st, flags, cur_pos, j) ==
  IF cur_pos > Len(st.dep_libs) THEN st
  ELSE LET parent == st.dep_libs[cur_pos]
           lib_names == Needed(parent.name)
       IN IF AllIdx(st.m.all, parent.name) = 0
          THEN [st EXCEPT !.status = "panic"]
          ELSE
          IF j > Len(lib_names) THEN load_deps(st, flags, cur_pos + 1, 1)
          ELSE IF AllIdx(st.m.all, lib_names[j]) # 0
               THEN load_deps(use_existing(st, flags, lib_names[j]),
                              flags, cur_pos, j + 1)
               ELSE IF find_library(lib_names[j]) = <<>>
                    THEN [st EXCEPT !.status = "err"]
                    ELSE load_deps(register_new(st, flags,
                                                find_library(lib_names[j])),
                                   flags, cur_pos, j + 1)

(***************************************************************************)
(* update_dependency_scopes: BFS over `needed` for every new library.      *)
(***************************************************************************)
RECURSIVE enqueue_needed(_, _, _, _)
enqueue_needed(names, k, visited, queue) ==
  IF k > Len(names) THEN [visited |-> visited, queue |-> queue]
  ELSE IF names[k] \in visited
       THEN enqueue_needed(names, k + 1, visited, queue)
       ELSE enqueue_needed(names, k + 1, visited \cup {names[k]},
                           Append(queue, names[k]))

RECURSIVE bfs_scope(_, _, _, _)
bfs_scope(a, queue, visited, scope) ==
  IF queue = <<>> THEN scope
  ELSE LET dylib == a[AllIdx(a, Head(queue))].lib
           nxt == enqueue_needed(Needed(dylib.name), 1, visited, Tail(queue))
       IN bfs_scope(a, nxt.queue, nxt.visited, Append(scope, dylib))

RECURSIVE update_dependency_scopes(_, _, _)
update_dependency_scopes(a, roots, r) ==
  IF r > Len(roots) THEN a
  ELSE LET i == AllIdx(a, roots[r])
           scope == bfs_scope(a, <<roots[r]>>, {roots[r]}, <<>>)
       IN update_dependency_scopes(
            [a EXCEPT ![i].deps = [kind |-> "scope", libs |-> scope]],
            roots, r + 1)

new_lib_names(a, dep_libs) ==
  LET isNew(lib) == AllIdx(a, lib.name) # 0
                    /\ has_new_idx(a[AllIdx(a, lib.name)].state)
      sel == SelectSeq(dep_libs, isNew)
  IN [i \in DOMAIN sel |-> sel[i].name]

(***************************************************************************)
(* compute_order: depth-first post-order over new_libs, starting at        *)
(* index 0; a visited dependency is marked by set_relocated.               *)
(***************************************************************************)
RECURSIVE compute_order(_, _, _, _)
compute_order(a, new_libs, stack, order) ==
  IF stack = <<>> THEN [all |-> a, order |-> order]
  ELSE LET item == stack[Len(stack)]
           rest == SubSeq(stack, 1, Len(stack) - 1)
           names == Needed(new_libs[item.idx + 1].lib.name)
           fresh == { p \in (item.next + 1)..Len(names) :
                        has_new_idx(a[AllIdx(a, names[p])].state) }
       IN IF fresh = {}
          THEN compute_order(a, new_libs, rest, Append(order, item.idx))
          ELSE LET i == AllIdx(a, names[Min(fresh)])
               IN compute_order(
                    [a EXCEPT ![i].state = RELOCATED], new_libs,
                    rest \o << [idx |-> item.idx, next |-> item.next + 1],
                               [idx |-> a[i].state, next |-> 0] >>,
                    order)

RECURSIVE set_state(_, _, _, _)
set_state(a, dep_libs, k, state) ==
  IF k > Len(dep_libs) THEN a
  ELSE LET i == AllIdx(a, dep_libs[k].name)
       IN set_state(IF i = 0 THEN a ELSE [a EXCEPT ![i].state = state],
                    dep_libs, k + 1, state)

set_relocating(a, dep_libs) == set_state(a, dep_libs, 1, RELOCATING)

set_relocated(a, dep_libs) == set_state(a, dep_libs, 1, RELOCATED)

get_deps(dep_libs) == [kind |-> "deps", libs |-> dep_libs]

(***************************************************************************)
(* impl Drop for ElfLibrary.  m is [all, global, subs, removed].           *)
(***************************************************************************)
Bit(b) == IF b THEN 1 ELSE 0

threshold(h) == 2 + Bit(h.deps # NoDeps) + Bit("GLOBAL" \in h.flags)

dep_threshold(entry) ==
  2 + Bit(entry.deps # NoDeps) + Bit("GLOBAL" \in entry.flags)

RemovedRefs(lib, removed) ==
  Cardinality({ j \in DOMAIN removed : removed[j] = lib })

RECURSIVE check_dependencies(_, _, _, _, _)
check_dependencies(m, libs, k, hs, cx) ==
  IF k > Len(libs) THEN m
  ELSE LET dep == libs[k]
           i == AllIdx(m.all, dep.name)
       IN IF i = 0 \/ "NODELETE" \in m.all[i].flags
          THEN check_dependencies(m, libs, k + 1, hs, cx)
          ELSE IF strong_count(dep, m.all, m.global, hs, cx)
                    + RemovedRefs(dep, m.removed) = dep_threshold(m.all[i])
               THEN check_dependencies(
                      [m EXCEPT !.removed = Append(m.removed, dep),
                                !.all = AllShiftRemove(m.all, dep.name),
                                !.subs = m.subs + 1,
                                !.global = GlobalShiftRemove(m.global,
                                                             dep.name)],
                      libs, k + 1, hs, cx)
               ELSE check_dependencies(m, libs, k + 1, hs, cx)

drop_library(h, m, hs, cx) ==
  IF "NODELETE" \in h.flags \/ "NOT_REGISTER" \in h.flags THEN m
  ELSE IF strong_count(h.inner, m.all, m.global, hs, cx) # threshold(h)
       THEN m
       ELSE check_dependencies(
              [m EXCEPT !.removed = <<h.inner>>,
                        !.all = AllShiftRemove(m.all, h.inner.name),
                        !.subs = m.subs + 1,
                        !.global = IF "GLOBAL" \in h.flags
                                   THEN GlobalShiftRemove(m.global,
                                                          h.inner.name)
                                   ELSE m.global],
              h.deps.libs, 2, hs, cx)

(***************************************************************************)
(* dlopen_impl up to the first release of the write lock: OpenContext::new *)
(* and try_existing, then the load of the root and of its dependencies.    *)
(* A thread enters from "idle" (OpenContext::new takes the lock and the    *)
(* checkpoints) or from "spin" (try_existing takes the lock again and the  *)
(* checkpoints stay as they were taken).                                   *)
(***************************************************************************)
InFlight == Cardinality({ t \in Threads : pc[t] # "idle" })

Spinning == Cardinality({ t \in Threads : pc[t] = "spin" })

MayOpen == BagCardinality(handles) + InFlight < MaxHandles

MayLoad == nextBase + Spinning < MaxLoads

Enter(t, path, flags) ==
  /\ CanWrite
  /\ \/ pc[t] = "idle" /\ MayOpen
     \/ pc[t] = "spin" /\ ctx[t].path = path /\ ctx[t].flags = flags

new(t, path, flags) ==
  IF pc[t] = "idle"
  THEN [IdleCtx EXCEPT !.path = path, !.flags = flags,
                       !.old_all_len = Len(all),
                       !.old_global_len = Len(global)]
  ELSE ctx[t]

Existing(path) == AllIdx(all, ShortName(path))

get_lib(entry) ==
  [inner |-> entry.lib, flags |-> entry.flags, deps |-> entry.deps]

Promotable == {"GLOBAL", "NODELETE"}

needs_promotion(flags, lib) ==
  \/ "GLOBAL" \in flags /\ "GLOBAL" \notin lib.flags
  \/ "NODELETE" \in flags /\ "NODELETE" \notin lib.flags

Completed(t, path, flags, lib, a, g) ==
  IF last.t < 0 THEN last
  ELSE [t |-> t, name |-> ShortName(path), flags |-> flags,
        base |-> lib.base, all_len |-> Len(a), global_len |-> Len(g)]

Again(t, path, flags) ==
  last.t = t /\ last.name = ShortName(path) /\ last.flags = flags

\* try_existing returns the registered library.
DedupHit(t, path, flags) ==
  /\ Enter(t, path, flags)
  /\ Existing(path) # 0
  /\ is_relocated(all[Existing(path)].state)
  /\ LET i == Existing(path)
         lib == get_lib(all[i])
         promote == needs_promotion(flags, lib)
         all2 == IF promote
                 THEN [all EXCEPT ![i].flags = @ \cup (flags \cap Promotable)]
                 ELSE all
         global2 == IF promote /\ "GLOBAL" \in flags
                    THEN GlobalInsert(global, all[i].lib) ELSE global
         h == IF promote
              THEN [lib EXCEPT !.flags = @ \cup (flags \cap Promotable)]
              ELSE lib
     IN /\ all' = all2
        /\ global' = global2
        /\ handles' = handles (+) SetToBag({h})
        /\ last' = Completed(t, path, flags, h.inner, all2, global2)
  /\ writer' = 0
  /\ pc' = [pc EXCEPT ![t] = "idle"]
  /\ ctx' = [ctx EXCEPT ![t] = IdleCtx]
  /\ UNCHANGED <<aux, once, ret, adds, subs, nextBase, finalized>>

\* try_existing finds the library being loaded or relocated: it releases
\* the lock and spins.
DedupWait(t, path, flags) ==
  /\ Enter(t, path, flags)
  /\ pc[t] = "idle" => MayLoad
  /\ Existing(path) # 0
  /\ ~is_relocated(all[Existing(path)].state)
  /\ writer' = lock_take(t)
  /\ pc' = [pc EXCEPT ![t] = "spin"]
  /\ ctx' = [ctx EXCEPT ![t] = new(t, path, flags)]
  /\ last' = Keep(t, Again(t, path, flags), all, global)
  /\ UNCHANGED <<aux, once, ret, all, global, adds, subs, handles, nextBase, finalized>>

(***************************************************************************)
(* dlopen_impl from the load of the root to the release of the lock.       *)
(***************************************************************************)
RootPath(path) ==
  IF Len(path) > 1
  THEN IF path \in Files THEN path ELSE <<>>
  ELSE find_library(ShortName(path))

Loaded(path, flags) ==
  LET st0 == [m |-> [all |-> all, global |-> global, adds |-> adds],
              nextBase |-> nextBase, dep_libs |-> <<>>, new_libs |-> <<>>,
              status |-> "ok"]
  IN IF "NOLOAD" \in flags \/ RootPath(path) = <<>>
     THEN [st0 EXCEPT !.status = "err"]
     ELSE load_deps(register_new(st0, flags, RootPath(path)), flags, 1, 1)

\* impl Drop for OpenContext, not committed.
rollback(c, a, g) ==
  [all |-> truncate(a, c.old_all_len),
   global |-> truncate(g, c.old_global_len)]

LoadFail(t, path, flags) ==
  /\ Enter(t, path, flags)
  /\ pc[t] = "idle" => MayLoad
  /\ Existing(path) = 0
  /\ Loaded(path, flags).status # "ok"
  /\ LET st == Loaded(path, flags)
         r == rollback(new(t, path, flags), st.m.all, st.m.global)
     IN /\ all' = r.all
        /\ global' = r.global
        /\ adds' = st.m.adds
        /\ nextBase' = st.nextBase
        /\ last' = Keep(t, FALSE, r.all, r.global)
  /\ writer' = 0
  /\ pc' = [pc EXCEPT ![t] = "idle"]
  /\ ctx' = [ctx EXCEPT ![t] = IdleCtx]
  /\ UNCHANGED <<aux, once, ret, subs, handles, finalized>>

LoadOk(t, path, flags) ==
  /\ Enter(t, path, flags)
  /\ pc[t] = "idle" => MayLoad
  /\ Existing(path) = 0
  /\ Loaded(path, flags).status = "ok"
  /\ LET st == Loaded(path, flags)
         scoped == update_dependency_scopes(
                     st.m.all, new_lib_names(st.m.all, st.dep_libs), 1)
         co == compute_order(scoped, st.new_libs,
                             << [idx |-> 0, next |-> 0] >>, <<>>)
         a2 == set_relocating(co.all, st.dep_libs)
     IN /\ all' = a2
        /\ global' = st.m.global
        /\ adds' = st.m.adds
        /\ nextBase' = st.nextBase
        /\ ctx' = [ctx EXCEPT ![t] = [new(t, path, flags) EXCEPT
                                        !.new_libs = st.new_libs,
                                        !.dep_libs = st.dep_libs,
                                        !.order = co.order,
                                        !.deps = get_deps(st.dep_libs)]]
        /\ last' = Keep(t, Again(t, path, flags), a2, st.m.global)
  /\ writer' = lock_take(t)
  /\ pc' = [pc EXCEPT ![t] = "snap"]
  /\ UNCHANGED <<aux, once, ret, subs, handles, finalized>>

(***************************************************************************)
(* OpenContext::relocate, with the lock released.                          *)
(***************************************************************************)
RelocSnapshot(t) ==
  /\ pc[t] = "snap"
  /\ CanRead
  /\ ctx' = [ctx EXCEPT ![t].global_libs = global]
  /\ pc' = [pc EXCEPT ![t] = "reloc"]
  /\ last' = Keep(t, TRUE, all, global)
  /\ UNCHANGED <<aux, once, ret, all, global, adds, subs, writer, handles, nextBase,
                 finalized>>

Current(c) == c.new_libs[c.order[c.k + 1] + 1]

Relocating(t) ==
  /\ pc[t] = "reloc"
  /\ ctx[t].k < Len(ctx[t].order)
  /\ ~Current(ctx[t]).taken

RelocStepOk(t) ==
  /\ Relocating(t)
  /\ ~RelocationFails(Current(ctx[t]).lib.name)
  /\ ctx' = [ctx EXCEPT ![t].new_libs[ctx[t].order[ctx[t].k + 1] + 1].taken
                          = TRUE,
                        ![t].k = @ + 1,
                        ![t].saw = "nothing"]
  /\ last' = Keep(t, TRUE, all, global)
  /\ UNCHANGED <<aux, once, ret, all, global, adds, subs, writer, pc, handles, nextBase,
                 finalized>>

RelocStepFail(t) ==
  /\ Relocating(t)
  /\ RelocationFails(Current(ctx[t]).lib.name)
  /\ ctx' = [ctx EXCEPT ![t].new_libs[ctx[t].order[ctx[t].k + 1] + 1].taken
                          = TRUE,
                        ![t].global_libs = <<>>,
                        ![t].deps = NoDeps,
                        ![t].saw = "nothing"]
  /\ pc' = [pc EXCEPT ![t] = "rollback"]
  /\ last' = Keep(t, FALSE, all, global)
  /\ UNCHANGED <<aux, once, ret, all, global, adds, subs, writer, handles, nextBase,
                 finalized>>

\* What dl_iterate_phdr reports about a library.
Observed(a, lib) ==
  IF \E i \in DOMAIN a : a[i].lib = lib
  THEN LET i == CHOOSE j \in DOMAIN a : a[j].lib = lib
       IN IF a[i].state = RELOCATING THEN "Relocating"
          ELSE IF a[i].state = RELOCATED THEN "Relocated" ELSE "New"
  ELSE "absent"

\* dl_iterate_phdr called by a constructor of the library being relocated.
CtorIteratePhdr(t) ==
  /\ Relocating(t)
  /\ CanRead
  /\ ctx' = [ctx EXCEPT ![t].saw = Observed(all, Current(ctx[t]).lib)]
  /\ last' = Keep(t, TRUE, all, global)
  /\ UNCHANGED <<aux, once, ret, all, global, adds, subs, writer, pc, handles, nextBase,
                 finalized>>

\* set_relocated at the end of relocate, then finish.
Commit(t) ==
  /\ pc[t] = "reloc"
  /\ ctx[t].k = Len(ctx[t].order)
  /\ CanWrite
  /\ LET a2 == set_relocated(all, ctx[t].dep_libs)
         h == [inner |-> ctx[t].deps.libs[1], flags |-> ctx[t].flags,
               deps |-> ctx[t].deps]
     IN /\ all' = a2
        /\ handles' = handles (+) SetToBag({h})
        /\ last' = Completed(t, ctx[t].path, ctx[t].flags, h.inner, a2, global)
  /\ pc' = [pc EXCEPT ![t] = "idle"]
  /\ ctx' = [ctx EXCEPT ![t] = IdleCtx]
  /\ UNCHANGED <<aux, once, ret, global, adds, subs, writer, nextBase, finalized>>

\* The order names a library a second time: take() has left None in
\* new_libs and expect("Library missing") panics.  The unwinding drops the
\* OpenContext, not committed; the call never returns.
RelocTaken(t) ==
  /\ pc[t] = "reloc"
  /\ ctx[t].k < Len(ctx[t].order)
  /\ Current(ctx[t]).taken
  /\ CanWrite
  /\ LET r == rollback(ctx[t], all, global)
     IN /\ all' = r.all
        /\ global' = r.global
        /\ last' = Keep(t, FALSE, r.all, r.global)
  /\ pc' = [pc EXCEPT ![t] = "panicked"]
  /\ ctx' = [ctx EXCEPT ![t] = IdleCtx]
  /\ UNCHANGED <<aux, once, ret, adds, subs, writer, handles, nextBase,
                 finalized>>

\* The error of relocate leaves dlopen_impl: OpenContext is dropped.
Rollback(t) ==
  /\ pc[t] = "rollback"
  /\ CanWrite
  /\ LET r == rollback(ctx[t], all, global)
     IN /\ all' = r.all
        /\ global' = r.global
        /\ last' = Keep(t, FALSE, r.all, r.global)
  /\ pc' = [pc EXCEPT ![t] = "idle"]
  /\ ctx' = [ctx EXCEPT ![t] = IdleCtx]
  /\ UNCHANGED <<aux, once, ret, adds, subs, writer, handles, nextBase, finalized>>

(***************************************************************************)
(* The destructor queue.  An entry is [dso_handle, id], id the rank of its *)
(* registration; `ran` lists the entries run, in the order they ran.       *)
(***************************************************************************)
Reverse(q) == [i \in 1..Len(q) |-> q[Len(q) + 1 - i]]

\* A range is <<start, end>>, or <<>> for None.
mapped_range(lib) ==
  << lib.base * MappedLen, lib.base * MappedLen + MappedLen >>

range_contains(r, addr) == r[1] <= addr /\ addr < r[2]

\* The range of the first registered library that contains dso_handle.
find_range(a, dso_handle) ==
  LET hit == { i \in DOMAIN a :
                 range_contains(mapped_range(a[i].lib), dso_handle) }
  IN IF hit = {} THEN <<>> ELSE mapped_range(a[Min(hit)].lib)

\* A match that ignores the range of the library being finalised.
matches_any(d, dso_handle, range) ==
  dso_handle = NULL \/ range # <<>> \/ d.dso_handle = dso_handle

matches(d, dso_handle, range) ==
  IF dso_handle = NULL THEN TRUE
  ELSE IF range # <<>> THEN range_contains(range, d.dso_handle)
       ELSE d.dso_handle = dso_handle

\* A drain that runs the matching entries in registration order.
finalize_forward(m, a, dso_handle, range) ==
  LET r == IF range = <<>> /\ dso_handle # NULL
           THEN find_range(a, dso_handle) ELSE range
      to_run == SelectSeq(m.queue, LAMBDA d : matches(d, dso_handle, r))
  IN [queue |-> SelectSeq(m.queue, LAMBDA d : ~matches(d, dso_handle, r)),
      ran |-> m.ran \o to_run]

\* finalize on the state [queue, ran]: the matching entries leave the queue
\* and run in reverse.
finalize(m, a, dso_handle, range) ==
  LET r == IF range = <<>> /\ dso_handle # NULL
           THEN find_range(a, dso_handle) ELSE range
      to_run == SelectSeq(m.queue, LAMBDA d : matches(d, dso_handle, r))
  IN [queue |-> SelectSeq(m.queue, LAMBDA d : ~matches(d, dso_handle, r)),
      ran |-> m.ran \o Reverse(to_run)]

\* The loop over removed_libs at the end of drop.
RECURSIVE finalize_removed(_, _)
finalize_removed(m, removed) ==
  IF removed = <<>> THEN m
  ELSE finalize_removed(
         finalize(m, <<>>, removed[1].base * MappedLen,
                  mapped_range(removed[1])),
         Tail(removed))

\* __cxa_atexit and __cxa_thread_atexit_impl.
register_atexit(dso_handle) ==
  /\ Len(DESTRUCTORS) + Len(ran) < MaxDestructors
  /\ DESTRUCTORS' = Append(DESTRUCTORS,
                           [dso_handle |-> dso_handle,
                            id |-> Len(DESTRUCTORS) + Len(ran) + 1])
  /\ UNCHANGED <<registry, env, call, ran, link_map, DEBUG, r_debug, fault>>

cxa_finalize(dso_handle) ==
  /\ dso_handle # NULL => CanRead
  /\ LET m == finalize([queue |-> DESTRUCTORS, ran |-> ran], all,
                       dso_handle, <<>>)
     IN /\ DESTRUCTORS' = m.queue
        /\ ran' = m.ran
  /\ call' = [fn |-> "finalize", dso_handle |-> dso_handle]
  /\ UNCHANGED <<registry, env, link_map, DEBUG, r_debug, fault>>

(***************************************************************************)
(* A user thread drops one of the live handles.                            *)
(***************************************************************************)
DropHandle(t, h) ==
  /\ pc[t] = "idle"
  /\ h \in BagToSet(handles)
  /\ CanWrite
  /\ LET m == drop_library(h, [all |-> all, global |-> global,
                               subs |-> subs, removed |-> <<>>],
                           handles, ctx)
     IN /\ all' = m.all
        /\ global' = m.global
        /\ subs' = m.subs
        /\ finalized' = finalized \cup { m.removed[j].base :
                                         j \in DOMAIN m.removed }
        /\ last' = IF h.inner.name = last.name THEN Keep(last.t, FALSE, all, global)
                   ELSE Keep(t, FALSE, m.all, m.global)
        /\ LET d == finalize_removed([queue |-> DESTRUCTORS, ran |-> ran],
                                     m.removed)
           IN /\ DESTRUCTORS' = d.queue
              /\ ran' = d.ran
  /\ handles' = handles (-) SetToBag({h})
  /\ UNCHANGED <<env, call, link_map, DEBUG, r_debug, fault, once, ret, adds,
                 writer, pc, ctx, nextBase>>

(***************************************************************************)
(* The C interface.  A handle of the C interface is the boxed              *)
(* Arc<[LoadedDylib]> taken out of an ElfLibrary: in `handles` it is an    *)
(* element with the slice in deps and no inner library.                    *)
(***************************************************************************)
Boxed(deps) == [inner |-> NoLib, flags |-> {}, deps |-> deps]

\* What the drop of the ElfLibrary lib does to the registry when the live
\* handles are hs, lib among them; lib is gone afterwards.
DropOf(t, lib, hs, left) ==
  LET m == drop_library(lib, [all |-> all, global |-> global,
                              subs |-> subs, removed |-> <<>>],
                        hs, ctx)
      d == finalize_removed([queue |-> DESTRUCTORS, ran |-> ran], m.removed)
  IN /\ all' = m.all
     /\ global' = m.global
     /\ subs' = m.subs
     /\ finalized' = finalized \cup { m.removed[j].base :
                                      j \in DOMAIN m.removed }
     /\ last' = IF lib.inner.name = last.name
                THEN Keep(last.t, FALSE, all, global)
                ELSE Keep(t, FALSE, m.all, m.global)
     /\ DESTRUCTORS' = d.queue
     /\ ran' = d.ran
     /\ handles' = left

\* extern "C" dlopen once ElfLibrary::dlopen has returned lib: the slice is
\* taken out of lib and boxed, and lib, now without deps, is dropped.
dlopen(t, lib) ==
  /\ pc[t] = "idle"
  /\ lib \in BagToSet(handles)
  /\ lib.inner # NoLib
  /\ CanWrite
  /\ LET rest == handles (-) SetToBag({lib})
         taken == [lib EXCEPT !.deps = NoDeps]
         left == IF lib.deps = NoDeps THEN rest
                 ELSE rest (+) SetToBag({Boxed(lib.deps)})
     IN DropOf(t, taken, left (+) SetToBag({taken}), left)
  /\ ret' = [op |-> "dlopen", sym |-> "",
             lib |-> IF lib.deps = NoDeps THEN NoLib ELSE lib.inner]
  /\ UNCHANGED <<env, call, link_map, DEBUG, r_debug, fault, once, adds,
                 writer, pc, ctx, nextBase>>

\* extern "C" dlclose on the handle c.
dlclose(t, c) ==
  /\ pc[t] = "idle"
  /\ c \in BagToSet(handles)
  /\ c.inner = NoLib
  /\ CanWrite
  /\ LET rest == handles (-) SetToBag({c})
         i == AllIdx(all, c.deps.libs[1].name)
     IN IF i = 0
        THEN /\ handles' = rest
             /\ ret' = [op |-> "dlclose", sym |-> "-1", lib |-> NoLib]
             /\ UNCHANGED <<all, global, subs, finalized, last, DESTRUCTORS,
                            ran>>
        ELSE /\ DropOf(t, get_lib(all[i]),
                       rest (+) SetToBag({get_lib(all[i])}), rest)
             /\ ret' = [op |-> "dlclose", sym |-> "0", lib |-> all[i].lib]
  /\ UNCHANGED <<env, call, link_map, DEBUG, r_debug, fault, once, adds,
                 writer, pc, ctx, nextBase>>

CInterface ==
  \/ \E t \in Threads : \E lib \in BagToSet(handles) : dlopen(t, lib)
  \/ \E t \in Threads : \E c \in BagToSet(handles) : dlclose(t, c)

(***************************************************************************)
(* The debugger's list.  DEBUG.debug names the r_debug in use: the         *)
(* internal one, or the host linker's after init_debug.  A node is added   *)
(* when its library is mapped (loader.rs:135) and unlinked when the        *)
(* UserData of the library is dropped.  A node whose owner is "freed" is   *)
(* memory given back: a pointer to it dangles.                             *)
(***************************************************************************)
add_debug_link_map(n) ==
  /\ ~fault
  /\ link_map[n].owner = "none"
  /\ \A k \in 1..(n - 1) : link_map[k].owner # "none"
  /\ LET tail == DEBUG.tail
         added == [link_map EXCEPT ![n] = [l_prev |-> tail, l_next |-> NULL,
                                           owner |-> "user"]]
     IN /\ link_map' = IF tail = NULL THEN added
                       ELSE [added EXCEPT ![tail].l_next = n]
        /\ r_debug' = [r_debug EXCEPT
                         ![DEBUG.debug].map = IF tail = NULL THEN n ELSE @,
                         ![DEBUG.debug].state = RT_CONSISTENT]
  /\ DEBUG' = [DEBUG EXCEPT !.tail = n]
  /\ UNCHANGED <<registry, env, call, DESTRUCTORS, ran, fault>>

\* The match of Drop for UserData on the node n: the list after it, and
\* what it dereferenced ("null": a null pointer, "freed": freed memory).
unlink(lm, map, tail, n) ==
  LET prev == lm[n].l_prev
      next == lm[n].l_next
      bad(S) == IF NULL \in S THEN "null"
                ELSE IF \E k \in S : lm[k].owner = "freed" THEN "freed"
                     ELSE "none"
  IN IF map = n /\ tail = n
     THEN [lm |-> lm, map |-> NULL, tail |-> NULL, ub |-> "none"]
     ELSE IF map = n
     THEN [lm |-> IF next = NULL THEN lm
                  ELSE [lm EXCEPT ![next].l_prev = NULL],
           map |-> next, tail |-> tail, ub |-> bad({next})]
     ELSE IF tail = n
     THEN [lm |-> IF prev = NULL THEN lm
                  ELSE [lm EXCEPT ![prev].l_next = NULL],
           map |-> map, tail |-> prev, ub |-> bad({prev})]
     ELSE [lm |-> IF prev = NULL \/ next = NULL THEN lm
                  ELSE [lm EXCEPT ![prev].l_next = next,
                                  ![next].l_prev = prev],
           map |-> map, tail |-> tail, ub |-> bad({prev, next})]

\* impl Drop for UserData.  A null dereference stops the process with the
\* state left at RT_DELETE; a write through a dangling pointer either does
\* the same or lands in the freed node.
DropUserData(n) ==
  /\ ~fault
  /\ link_map[n].owner = "user"
  /\ LET d == r_debug[DEBUG.debug]
         u == unlink(link_map, d.map, DEBUG.tail, n)
     IN IF d.map # n /\ link_map[n].l_prev = NULL
        THEN /\ link_map' = [link_map EXCEPT ![n].owner = "freed"]
             /\ UNCHANGED <<DEBUG, r_debug, fault>>
        ELSE \/ /\ u.ub # "null"
                /\ link_map' = [u.lm EXCEPT ![n].owner = "freed"]
                /\ DEBUG' = [DEBUG EXCEPT !.tail = u.tail]
                /\ r_debug' = [r_debug EXCEPT
                                 ![DEBUG.debug].map = u.map,
                                 ![DEBUG.debug].state = RT_CONSISTENT]
                /\ UNCHANGED fault
             \/ /\ u.ub # "none"
                /\ fault' = TRUE
                /\ r_debug' = [r_debug EXCEPT
                                 ![DEBUG.debug].state = RT_DELETE]
                /\ UNCHANGED <<link_map, DEBUG>>
  /\ UNCHANGED <<registry, env, call, DESTRUCTORS, ran>>

\* The last node of the list that starts at cur.
RECURSIVE last_node(_, _)
last_node(lm, cur) ==
  IF cur = NULL \/ lm[cur].l_next = NULL THEN cur
  ELSE last_node(lm, lm[cur].l_next)

init_debug(debug) ==
  [debug |-> debug, tail |-> last_node(link_map, r_debug[debug].map)]

DebugList ==
  \/ \E n \in 1..MaxNodes : add_debug_link_map(n)
  \/ \E n \in 1..MaxNodes : DropUserData(n)

(***************************************************************************)
(* The same two handlers as a debugger sees them: it is stopped at each    *)
(* call of brk and reads r_debug there, so a handler is cut at its calls   *)
(* of brk.  call holds the handler that is between its two calls; the      *)
(* DEBUG mutex keeps every other handler out until it has finished.        *)
(***************************************************************************)
\* add_debug_link_map from its entry to its first call of brk.
AddNotify(n) ==
  /\ ~fault
  /\ call = NoCall
  /\ link_map[n].owner = "none"
  /\ \A k \in 1..(n - 1) : link_map[k].owner # "none"
  /\ LET tail == DEBUG.tail
         added == [link_map EXCEPT ![n] = [l_prev |-> tail, l_next |-> NULL,
                                           owner |-> "user"]]
     IN /\ link_map' = IF tail = NULL THEN added
                       ELSE [added EXCEPT ![tail].l_next = n]
        /\ r_debug' = [r_debug EXCEPT
                         ![DEBUG.debug].map = IF tail = NULL THEN n ELSE @,
                         ![DEBUG.debug].state = RT_ADD]
  /\ DEBUG' = [DEBUG EXCEPT !.tail = n]
  /\ call' = [fn |-> "add_debug_link_map", node |-> n]
  /\ UNCHANGED <<registry, env, DESTRUCTORS, ran, fault>>

\* add_debug_link_map from its first call of brk to its second.
AddConsistent ==
  /\ call.fn = "add_debug_link_map"
  /\ r_debug' = [r_debug EXCEPT ![DEBUG.debug].state = RT_CONSISTENT]
  /\ call' = NoCall
  /\ UNCHANGED <<registry, env, DESTRUCTORS, ran, link_map, DEBUG, fault>>

\* Drop for UserData from its entry to its first call of brk, or to its
\* early return.
DropNotify(n) ==
  /\ ~fault
  /\ call = NoCall
  /\ link_map[n].owner = "user"
  /\ IF r_debug[DEBUG.debug].map # n /\ link_map[n].l_prev = NULL
     THEN /\ link_map' = [link_map EXCEPT ![n].owner = "freed"]
          /\ UNCHANGED <<r_debug, call>>
     ELSE /\ r_debug' = [r_debug EXCEPT ![DEBUG.debug].state = RT_DELETE]
          /\ call' = [fn |-> "drop", node |-> n]
          /\ UNCHANGED link_map
  /\ UNCHANGED <<registry, env, DESTRUCTORS, ran, DEBUG, fault>>

\* Drop for UserData from its first call of brk to its second.
DropConsistent ==
  /\ call.fn = "drop"
  /\ LET n == call.node
         u == unlink(link_map, r_debug[DEBUG.debug].map, DEBUG.tail, n)
     IN \/ /\ u.ub # "null"
           /\ link_map' = [u.lm EXCEPT ![n].owner = "freed"]
           /\ DEBUG' = [DEBUG EXCEPT !.tail = u.tail]
           /\ r_debug' = [r_debug EXCEPT
                            ![DEBUG.debug].map = u.map,
                            ![DEBUG.debug].state = RT_CONSISTENT]
           /\ call' = NoCall
           /\ UNCHANGED fault
        \/ /\ u.ub # "none"
           /\ fault' = TRUE
           /\ UNCHANGED <<link_map, DEBUG, r_debug, call>>
  /\ UNCHANGED <<registry, env, DESTRUCTORS, ran>>

DebugEvents ==
  \/ \E n \in 1..MaxNodes : AddNotify(n)
  \/ AddConsistent
  \/ \E n \in 1..MaxNodes : DropNotify(n)
  \/ DropConsistent

(***************************************************************************)
(* Search directories.  Here a path is the string the code handles.        *)
(***************************************************************************)
starts_with(str, pat) ==
  Len(pat) <= Len(str) /\ SubSeq(str, 1, Len(pat)) = pat

\* str::split: the pieces of str between the occurrences of the character.
RECURSIVE split(_, _, _, _)
split(str, ch, from, i) ==
  IF i > Len(str) THEN << SubSeq(str, from, Len(str)) >>
  ELSE IF SubSeq(str, i, i) = ch
       THEN << SubSeq(str, from, i - 1) >> \o split(str, ch, i + 1, i + 1)
       ELSE split(str, ch, from, i + 1)

\* str::replace: every non-overlapping occurrence, from the left.
RECURSIVE replace(_, _, _, _)
replace(str, pat, by, i) ==
  IF i > Len(str) THEN ""
  ELSE IF starts_with(SubSeq(str, i, Len(str)), pat)
       THEN by \o replace(str, pat, by, i + Len(pat))
       ELSE SubSeq(str, i, i) \o replace(str, pat, by, i + 1)

\* The part of str before its last '/', or "none".
rsplit_once_dir(str) ==
  LET at == { i \in 1..Len(str) : SubSeq(str, i, i) = "/" }
  IN IF at = {} THEN "none"
     ELSE SubSeq(str, 1, (CHOOSE m \in at : \A n \in at : n <= m) - 1)

parse_path_list(str) ==
  SelectSeq(split(str, ":", 1, 1), LAMBDA piece : piece # "")

fixup_rpath(lib_path, rpath) ==
  IF ~contains(rpath, "$") THEN parse_path_list(rpath)
  ELSE LET pieces == Tail(split(rpath, "$", 1, 1))
       IN IF \E k \in DOMAIN pieces :
               /\ ~starts_with(pieces[k], "ORIGIN")
               /\ ~starts_with(pieces[k], "{ORIGIN}")
          THEN <<>>
          ELSE LET dir == IF rsplit_once_dir(lib_path) = "none" THEN "."
                          ELSE rsplit_once_dir(lib_path)
               IN parse_path_list(replace(rpath, "$ORIGIN", dir, 1))

\* load_deps asks for the search directories of a new parent.
FixupRpath(lib_path, rpath) ==
  /\ call' = [fn |-> "fixup_rpath", lib_path |-> lib_path, rpath |-> rpath,
              dirs |-> fixup_rpath(lib_path, rpath)]
  /\ UNCHANGED <<registry, env, DESTRUCTORS, ran, link_map, DEBUG, r_debug,
                 fault>>

\* find_library: the candidates in the order they are tried, up to the
\* first one that loads.
find_candidates(rpath, runpath, e, lib_name) ==
  LET at(dirs) == [k \in DOMAIN dirs |-> dirs[k] \o "/" \o lib_name]
  IN (IF runpath = <<>> THEN at(rpath) ELSE <<>>)
     \o at(e.LD_LIBRARY_PATH) \o at(runpath) \o e.LD_CACHE
     \o at(<<"/lib", "/usr/lib">>)

find_library_in(rpath, runpath, e, lib_name) ==
  LET c == find_candidates(rpath, runpath, e, lib_name)
      ok == { k \in DOMAIN c : c[k] \in e.files }
  IN IF ok = {} THEN [tried |-> c, found |-> "", err |-> lib_name]
     ELSE [tried |-> SubSeq(c, 1, Min(ok)), found |-> c[Min(ok)],
           err |-> ""]

\* load_deps looks for lib_name, needed by a new parent; "none" is an
\* absent DT_RPATH or DT_RUNPATH.
FindLibrary(parent, lib_name) ==
  /\ LET rpath == IF parent.rpath = "none" THEN <<>>
                  ELSE fixup_rpath(parent.name, parent.rpath)
         runpath == IF parent.runpath = "none" THEN <<>>
                    ELSE fixup_rpath(parent.name, parent.runpath)
         r == find_library_in(rpath, runpath, env, lib_name)
     IN call' = [fn |-> "find_library", parent |-> parent,
                 lib_name |-> lib_name, tried |-> r.tried,
                 found |-> r.found, err |-> r.err]
  /\ UNCHANGED <<registry, env, DESTRUCTORS, ran, link_map, DEBUG, r_debug,
                 fault>>

(***************************************************************************)
(* init(): ONCE.call_once runs the host adoption.  dl_iterate_phdr reports *)
(* the host objects in load order, the program first; the callback takes   *)
(* the write lock for one object at a time.  `once` counts the callbacks   *)
(* that returned; Len(HostObjects) + 1 is the completed ONCE.  The caller  *)
(* of init() is a thread of its own: the other threads run meanwhile.      *)
(* init_debug runs before the first callback.                              *)
(***************************************************************************)
HostObjects == << Lib("main", 101), Lib("libc.so.6", 102) >>

HostFlags == {"NODELETE", "GLOBAL"}

InitCallback ==
  /\ once < Len(HostObjects)
  /\ CanWrite
  /\ LET m == register(HostObjects[once + 1], HostFlags,
                       [all |-> all, global |-> global, adds |-> adds],
                       RELOCATED)
     IN /\ all' = m.all
        /\ global' = m.global
        /\ adds' = m.adds
  /\ once' = once + 1
  /\ DEBUG' = IF once = 0 THEN init_debug("HOST") ELSE DEBUG
  /\ UNCHANGED <<env, call, DESTRUCTORS, ran, link_map, r_debug, fault, subs,
                 writer, pc, ctx, handles, nextBase, finalized, last, ret>>

\* manager.all[&current_name] finds every name the search reaches.
scopes_indexable(a) ==
  \A i \in DOMAIN a :
    \A n \in Range(Needed(a[i].lib.name)) : AllIdx(a, n) # 0

\* "Compute deps for all host libraries": the roots are all keys of `all`.
\* Indexing `all` with a name that is no key panics: the closure unwinds,
\* the guard is dropped, `all` is as it was and ONCE is left panicked
\* (Len(HostObjects) + 2).
InitScopes ==
  /\ once = Len(HostObjects)
  /\ CanWrite
  /\ IF scopes_indexable(all)
     THEN /\ all' = update_dependency_scopes(
                      all, [i \in DOMAIN all |-> all[i].lib.name], 1)
          /\ once' = once + 1
     ELSE /\ all' = all
          /\ once' = once + 2
  /\ UNCHANGED <<aux, global, adds, subs, writer, pc, ctx, handles, nextBase,
                 finalized, last, ret>>

Adopt == InitCallback \/ InitScopes

Adopted == once = Len(HostObjects) + 1

\* init() called once more after the ONCE is complete: call_once returns.
InitAgain ==
  /\ Adopted
  /\ call' = [fn |-> "init"]
  /\ UNCHANGED <<registry, env, DESTRUCTORS, ran, link_map, DEBUG, r_debug,
                 fault>>

(***************************************************************************)
(* register_new on a transaction that already holds `len` new libraries:   *)
(* new_idx is cast to u8 and set_new_idx asserts that it is below 254.     *)
(* `call` holds the length of new_libs and the state given to the library  *)
(* registered last.                                                        *)
(***************************************************************************)
assert_new_idx(idx) == idx % 256 < RELOCATING

RegisterNext ==
  /\ call.fn \in {"none", "register_new"}
  /\ call.fn = "register_new" => call.status = "ok"
  /\ LET new_idx == IF call.fn = "none" THEN 0 ELSE call.len
     IN call' = IF assert_new_idx(new_idx)
                THEN [fn |-> "register_new", status |-> "ok",
                      new_idx |-> new_idx, state |-> set_new_idx(new_idx),
                      len |-> new_idx + 1]
                ELSE [fn |-> "register_new", status |-> "panic",
                      new_idx |-> new_idx, state |-> RELOCATING,
                      len |-> new_idx]
  /\ UNCHANGED <<registry, env, DESTRUCTORS, ran, link_map, DEBUG, r_debug,
                 fault>>

(***************************************************************************)
(* Binding mode.  ENVP is null until init_libc_globals has run, at the end *)
(* of the host adoption; get_env is an Option, here a sequence of length   *)
(* 0 or 1.                                                                 *)
(***************************************************************************)
get_env(name) ==
  IF ~Adopted \/ env[name] = "unset" THEN <<>> ELSE << env[name] >>

\* The flags of OpenContext::new, then the choice of relocate for one
\* library whose is_lazy() (no DF_BIND_NOW) is lib_is_lazy.
is_lazy(flags, lib_is_lazy) ==
  LET f == IF get_env("LD_BIND_NOW") # <<>> THEN flags \cup {"NOW"}
           ELSE flags
  IN IF "NOW" \in f THEN FALSE
     ELSE IF "LAZY" \in f THEN TRUE ELSE lib_is_lazy

BindLibrary(flags, lib_is_lazy) ==
  /\ call' = [fn |-> "relocate", flags |-> flags,
              lib_is_lazy |-> lib_is_lazy, envp |-> Adopted,
              is_lazy |-> is_lazy(flags, lib_is_lazy)]
  /\ UNCHANGED <<registry, env, DESTRUCTORS, ran, link_map, DEBUG, r_debug,
                 fault>>

(***************************************************************************)
(* ElfLibrary::this()                                                      *)
(***************************************************************************)
This(t) ==
  /\ pc[t] = "idle"
  /\ CanRead
  /\ MayOpen
  /\ IF all # <<>>
     THEN /\ handles' = handles (+) SetToBag({get_lib(all[1])})
          /\ ret' = [op |-> "this", sym |-> "", lib |-> all[1].lib]
     ELSE /\ handles' = handles
          /\ ret' = [op |-> "this", sym |-> "", lib |-> NoLib]
  /\ UNCHANGED <<aux, all, global, adds, subs, writer, pc, ctx, nextBase,
                 finalized, last, once>>

(***************************************************************************)
(* dlsym_default: the symbols each object defines, and the walk of         *)
(* `global` in its order.                                                  *)
(***************************************************************************)
Symbols == {"f", "g"}

Defines(name) ==
  CASE name = "a" -> {"g"}
    [] name = "b" -> {"f"}
    [] name = "x" -> {"f", "g"}
    [] name = "p" -> {"f"}
    [] name = "libc.so.6" -> {"f"}
    [] OTHER -> {}

global_find(g, name) ==
  LET found == { i \in DOMAIN g : name \in Defines(g[i].name) }
  IN IF found = {} THEN NoLib ELSE g[Min(found)]

dlsym_default(t, name) ==
  /\ pc[t] = "idle"
  /\ CanRead
  /\ ret' = [op |-> "dlsym", sym |-> name, lib |-> global_find(global, name)]
  /\ UNCHANGED <<aux, all, global, adds, subs, writer, pc, ctx, handles,
                 nextBase, finalized, last, once>>

Resolve == \E t \in Threads, name \in Symbols : dlsym_default(t, name)

\* ElfLibrary::dl_iterate_phdr called by a user thread: the counters are read
\* once under the read lock and every callback gets a DlPhdrInfo with them.
\* call keeps the callbacks of this enumeration and of the one before.
dl_iterate_phdr(t) ==
  /\ pc[t] = "idle"
  /\ CanRead
  /\ LET dlpi_adds == adds
         dlpi_subs == subs
     IN call' = [fn |-> "dl_iterate_phdr",
                 infos |-> [i \in DOMAIN all |->
                              [name |-> all[i].lib.name,
                               base |-> all[i].lib.base,
                               dlpi_adds |-> dlpi_adds,
                               dlpi_subs |-> dlpi_subs]],
                 before |-> IF call.fn = "dl_iterate_phdr" THEN call.infos
                            ELSE <<>>]
  /\ UNCHANGED <<registry, env, DESTRUCTORS, ran, link_map, DEBUG, r_debug,
                 fault>>

Enumerate == \E t \in Threads : dl_iterate_phdr(t)

Lookup ==
  \/ \E t \in Threads : This(t)
  \/ Resolve

(***************************************************************************)
(* Symbol binding of relocate: the scope handed to the relocator, and the  *)
(* closure of create_lazy_scope called with the global scope g.            *)
(***************************************************************************)
\* A scope that ignores RTLD_DEEPBIND.
global_first_scope(c) == c.global_libs \o c.deps.libs

relocate_scope(c) ==
  IF "DEEPBIND" \in c.flags THEN c.deps.libs \o c.global_libs
  ELSE c.global_libs \o c.deps.libs

lazy_scope(c, g, name) ==
  LET local_find == global_find(c.deps.libs, name)
  IN IF "DEEPBIND" \in c.flags
     THEN IF local_find # NoLib THEN local_find ELSE global_find(g, name)
     ELSE IF global_find(g, name) # NoLib THEN global_find(g, name)
          ELSE local_find

\* The closure made by create_lazy_scope for the call of thread t, as it is
\* installed in the library being relocated: it owns weak references to the
\* libraries of deps.  call keeps the closure of one library.
create_lazy_scope(t) ==
  /\ Relocating(t)
  /\ call' = [fn |-> "create_lazy_scope",
              lib |-> Current(ctx[t]).lib,
              deps_weak |-> ctx[t].deps.libs,
              flags |-> ctx[t].flags]
  /\ UNCHANGED <<registry, env, DESTRUCTORS, ran, link_map, DEBUG, r_debug,
                 fault>>

\* local_find of the closure: each weak reference is upgraded and unwrapped
\* in turn until a library defines the name.  A reference to a destroyed
\* library (strong count 0) does not upgrade: the unwrap panics.
RECURSIVE local_find(_, _, _)
local_find(deps_weak, k, name) ==
  IF k > Len(deps_weak) THEN [status |-> "none", lib |-> NoLib]
  ELSE IF strong_count(deps_weak[k], all, global, handles, ctx) = 0
       THEN [status |-> "panic", lib |-> deps_weak[k]]
       ELSE IF name \in Defines(deps_weak[k].name)
            THEN [status |-> "found", lib |-> deps_weak[k]]
            ELSE local_find(deps_weak, k + 1, name)

\* The closure called with a name, by the resolver of a library that is
\* still registered.
lazy_find(name) ==
  /\ call.fn \in {"create_lazy_scope", "lazy_find"}
  /\ \E i \in DOMAIN all : all[i].lib = call.lib
  /\ CanRead
  /\ LET g == global_find(global, name)
         found == [status |-> "found", lib |-> g]
         l == local_find(call.deps_weak, 1, name)
         r == IF "DEEPBIND" \in call.flags
              THEN IF l.status = "none" /\ g # NoLib THEN found ELSE l
              ELSE IF g # NoLib THEN found ELSE l
     IN call' = [fn |-> "lazy_find", lib |-> call.lib,
                 deps_weak |-> call.deps_weak, flags |-> call.flags,
                 name |-> name, status |-> r.status, found |-> r.lib]
  /\ UNCHANGED <<registry, env, DESTRUCTORS, ran, link_map, DEBUG, r_debug,
                 fault>>

LazyBind ==
  \/ \E t \in Threads : create_lazy_scope(t)
  \/ \E name \in Symbols : lazy_find(name)

Open(paths, flagsets) ==
  \/ \E t \in Threads, path \in paths, flags \in flagsets :
       DedupHit(t, path, flags)
  \/ \E t \in Threads, path \in paths, flags \in flagsets :
       DedupWait(t, path, flags)
  \/ \E t \in Threads, path \in paths, flags \in flagsets :
       LoadOk(t, path, flags)

OpenFails(paths, flagsets) ==
  \E t \in Threads, path \in paths, flags \in flagsets :
    LoadFail(t, path, flags)

Relocate ==
  \/ \E t \in Threads : RelocSnapshot(t)
  \/ \E t \in Threads : RelocStepOk(t)
  \/ \E t \in Threads : CtorIteratePhdr(t)
  \/ \E t \in Threads : Commit(t)

RelocateFails ==
  \/ \E t \in Threads : RelocStepFail(t)
  \/ \E t \in Threads : Rollback(t)

RelocateAborts == \E t \in Threads : RelocTaken(t)

Drop == \E t \in Threads : \E h \in BagToSet(handles) : DropHandle(t, h)

Next ==
  \/ Open(OpenPaths, OpenFlagSets)
  \/ OpenFails(OpenPaths, OpenFlagSets)
  \/ Relocate
  \/ RelocateFails
  \/ Drop
  \/ Adopt
  \/ Lookup
  \/ RelocateAborts

Spec == Init /\ [][Next]_vars

(***************************************************************************)
(* Scenarios: the same program driven with a part of the inputs.           *)
(*   SpecDedup    every call opens a: loads and relocations succeed.       *)
(*   SpecShare    a and b: a library is the root of one call and a         *)
(*                dependency of another.                                   *)
(*   SpecReloc    x and p: calls fail while loading and while relocating.  *)
(*   SpecFail     a, x and p: failing calls beside successful ones.        *)
(*   SpecPromote  b and x, local and global: x fails while loading.        *)
(*   SpecHistory  SpecFail with the history variable recorded.             *)
(*   SpecFlags    a and b, global and nodelete: flags over a lifetime.      *)
(*   SpecNodelete b, local and nodelete: drops after a promotion.           *)
(*   SpecRuntime  the runtime libraries.                                    *)
(*   SpecScope    x and p global, a local: rollbacks of `global`.           *)
(*   SpecNoload   x and p with and without RTLD_NOLOAD.                     *)
(*   SpecHost     init() beside dlopen("b"), this() and dlsym_default.      *)
(*   SpecSymbols  init() beside global opens of b and libc.so.6.            *)
(*   SpecPrivate  b with and without CUSTOM_NOT_REGISTER.                   *)
(*   SpecOrigin   fixup_rpath over library paths and RPATH strings.         *)
(*   SpecSearch   find_library over environments and parents.               *)
(*   SpecBind     the binding mode before, during and after init().         *)
(*   SpecDeepbind p global; a local or global, with and without DEEPBIND.   *)
(*   SpecAtexit   the destructor queue beside opens and drops of p.         *)
(*   SpecDebug    the debugger's list before, during and after init().      *)
(*   SpecAdopt    init() beside opens and drops of libc.so.6.               *)
(*   SpecOrder    r, a and b beside failing global opens of x.              *)
(*   SpecCycle    b, and c whose dependency d needs c.                      *)
(*   SpecCap      register_new called again and again in one transaction.   *)
(*   SpecCascade  s, which needs b and a, opened twice and dropped.         *)
(*   SpecProtocol the debugger's list seen at each call of brk.             *)
(*   SpecEpoch    x and p beside enumerations by dl_iterate_phdr.           *)
(*   SpecLazy     a and b beside calls of a lazy-binding closure.           *)
(*   SpecCInterface  a and b through the C dlopen and dlclose.              *)
(***************************************************************************)
NextDedup == Open({<<"a">>}, OpenFlagSets) \/ Relocate \/ Drop

SpecDedup == Init /\ [][NextDedup]_vars

NextShare == Open({<<"a">>, <<"b">>}, {{}}) \/ Relocate \/ Drop

SpecShare == Init /\ [][NextShare]_vars

RelocPaths == { <<"x">>, <<"opt", "p">> }

NextReloc ==
  \/ Open(RelocPaths, {{}})
  \/ OpenFails(RelocPaths, {{}})
  \/ Relocate
  \/ RelocateFails
  \/ Drop

SpecReloc == Init /\ [][NextReloc]_vars

FailPaths == { <<"a">>, <<"x">>, <<"opt", "p">> }

NextFail ==
  \/ Open(FailPaths, {{}})
  \/ OpenFails(FailPaths, {{}})
  \/ Relocate
  \/ RelocateFails
  \/ Drop

SpecFail == Init /\ [][NextFail]_vars

SpecHistory == Start(NoLast) /\ [][NextFail]_vars

PromotePaths == { <<"b">>, <<"x">> }

NextPromote ==
  \/ Open(PromotePaths, OpenFlagSets)
  \/ OpenFails(PromotePaths, OpenFlagSets)
  \/ Relocate
  \/ Drop

SpecPromote == Init /\ [][NextPromote]_vars

\* SpecFlags: a and b opened global or nodelete.
LifetimeFlagSets == { {"GLOBAL"}, {"NODELETE"} }

NextFlags == Open({<<"a">>, <<"b">>}, LifetimeFlagSets) \/ Relocate \/ Drop

SpecFlags == Init /\ [][NextFlags]_vars

\* SpecNodelete: b opened local or nodelete.
NextNodelete == Open({<<"b">>}, { {}, {"NODELETE"} }) \/ Relocate \/ Drop

SpecNodelete == Init /\ [][NextNodelete]_vars

\* SpecRuntime: the C library and the musl interpreter opened by name.
RuntimePaths == { <<"libc.so.6">>, <<"ld-musl-x86_64.so.1">> }

NextRuntime == Open(RuntimePaths, OpenFlagSets) \/ Relocate \/ Drop

SpecRuntime == Init /\ [][NextRuntime]_vars

\* Global-scope scenario: x (needs b and p) and p opened RTLD_GLOBAL, a
\* (needs b) opened RTLD_LOCAL, with failing loads and relocations.
ScopePaths == { <<"x">>, <<"opt", "p">> }

NextScope ==
  \/ Open(ScopePaths, {{"GLOBAL"}})
  \/ Open({<<"a">>}, {{}})
  \/ OpenFails(ScopePaths, {{"GLOBAL"}})
  \/ Relocate
  \/ RelocateFails
  \/ Drop

SpecScope == Init /\ [][NextScope]_vars


\* Scheduling: a thread that is inside dlopen keeps running, so it takes
\* each step of its relocation phase, its commit or its rollback when that
\* step stays possible, and a thread in the dedup loop that keeps finding
\* its library Relocated returns (the lock is a spin lock that every holder
\* releases).  Nothing obliges user code to start a call, to drop a handle
\* or to call dl_iterate_phdr.
Retry(t) ==
  \E path \in RelocPaths : pc[t] = "spin" /\ DedupHit(t, path, {})

Fairness ==
  \A t \in Threads :
    /\ WF_vars(Retry(t))
    /\ WF_vars(RelocSnapshot(t))
    /\ WF_vars(RelocStepOk(t))
    /\ WF_vars(RelocStepFail(t))
    /\ WF_vars(Commit(t))
    /\ WF_vars(Rollback(t))

SpecRelocFair == Init /\ [][NextReloc]_vars /\ Fairness

(***************************************************************************)
(* Properties.                                                             *)
(***************************************************************************)
Names(a) == { a[i].lib.name : i \in DOMAIN a }

GlobalNames(g) == { g[i].name : i \in DOMAIN g }

Libs(a) == { a[i].lib : i \in DOMAIN a }

\* The libraries a transaction in flight has loaded itself.
Inserted(c) == { c.new_libs[i].lib : i \in DOMAIN c.new_libs }

\* A step that returns a handle to thread t.
Returns(t) ==
  /\ last'.t = t
  /\ BagCardinality(handles') = BagCardinality(handles) + 1

\* C1: dedup idempotence.  When a thread's successful dlopen(N, F) is
\* followed by its next successful dlopen(N, F), with no other call or drop
\* of that thread in between, the second handle has the base of the first;
\* and unless another thread changed the registry in between, `all` and
\* `global` have the sizes they had after the first call.
C1_DedupIdempotent ==
  [][\A t \in Threads :
       (/\ last.t = t
        /\ Returns(t)
        /\ last'.name = last.name
        /\ last'.flags = last.flags)
       => /\ last'.base = last.base
          /\ last.all_len >= 0 => /\ last'.all_len = last.all_len
                                  /\ last'.global_len = last.global_len]_vars

\* C2: rollback atomicity.  A dlopen that fails while loading its root or a
\* dependency leaves `all` and `global` with the lengths they had, and
\* none of the libraries it loaded is a key of `all` or of `global`.
C2_RollbackAtomic ==
  [][\A t \in Threads, path \in OpenPaths, flags \in OpenFlagSets :
       LoadFail(t, path, flags)
       => /\ Len(all') = Len(all)
          /\ Len(global') = Len(global)
          /\ \A i \in DOMAIN all' : all'[i].lib.base <= nextBase
          /\ \A i \in DOMAIN global' : global'[i].base <= nextBase]_vars

\* C3: rollback isolation.  The rollback of a transaction that failed in
\* relocation removes from `all` and `global` the records this transaction
\* inserted and no record of another transaction.
C3_RollbackIsolated ==
  [][\A t \in Threads :
       Rollback(t)
       => /\ Libs(all) \ Inserted(ctx[t]) \subseteq Libs(all')
          /\ Libs(all') \cap Inserted(ctx[t]) = {}
          /\ Range(global) \ Range(ctx[t].dep_libs) \subseteq Range(global')
          /\ Range(global') \cap Inserted(ctx[t]) = {}]_vars

\* C4: reference-count destruction.  When the last live handle is dropped
\* while no dlopen is in flight, the library of that handle (not NODELETE)
\* is removed from `all` and `global`, and `subs` grows.
C4_LastDropUnloads ==
  [][(/\ handles # EmptyBag
      /\ handles' = EmptyBag
      /\ InFlight = 0)
     => \A h \in BagToSet(handles) :
          "NODELETE" \notin h.flags
          => /\ h.inner.name \notin Names(all')
             /\ h.inner.name \notin GlobalNames(global')
             /\ subs' >= subs + 1]_vars

\* C5: no premature unload.  A drop of a handle removes from `all`, and
\* finalizes, no library that another handle still alive refers to.
C5_NoPrematureUnload ==
  [][BagCardinality(handles') < BagCardinality(handles)
     => \A g \in BagToSet(handles') :
          /\ g.inner \in Libs(all) => g.inner \in Libs(all')
          /\ g.inner.base \in finalized' => g.inner.base \in finalized]_vars

\* The threads that have loaded a library named n and not yet returned.
Loading(n) ==
  { t \in Threads : /\ pc[t] \in {"snap", "reloc"}
                    /\ \E lib \in Inserted(ctx[t]) : lib.name = n }

\* C6: parallel dedup.  While threads open one short name n concurrently,
\* one thread at most is loading n; the record of n and every live handle
\* to n are one library (one base); no handle to n exists before its
\* loader has returned, and the record stays Relocating until then; every
\* live handle refers to a record that is Relocated.
C6_ParallelDedup ==
  \A n \in {"a", "b"} :
    LET recs == { lib \in Libs(all) : lib.name = n }
        held == { h.inner : h \in { g \in BagToSet(handles) :
                                       g.inner.name = n } }
    IN /\ Cardinality(recs \cup held) <= 1
       /\ Cardinality(Loading(n)) <= 1
       /\ Loading(n) # {}
          => /\ held = {}
             /\ \A i \in DOMAIN all :
                  all[i].lib.name = n => all[i].state = RELOCATING
       /\ held # {}
          => \E i \in DOMAIN all :
               all[i].lib \in held /\ all[i].state = RELOCATED

\* A second thread waits for a while the first relocates it.
C6_Witness ==
  \E t, u \in Threads :
    /\ pc[t] = "spin" /\ ShortName(ctx[t].path) = "a"
    /\ pc[u] = "reloc" /\ u \in Loading("a")

\* C7: no re-entrant deadlock.  A thread in the relocation phase of its
\* dlopen (before, during and after the constructors, and until the
\* rollback of a failed relocation) does not hold the write lock, and the
\* dl_iterate_phdr of a constructor it runs can take the read lock.
C7_NoLockWhileRelocating ==
  \A t \in Threads :
    /\ pc[t] \in {"snap", "reloc", "rollback"} => writer # t
    /\ Relocating(t) => ENABLED CtorIteratePhdr(t)

\* A constructor has called dl_iterate_phdr and has seen its library.
C7_Witness ==
  \E t \in Threads : pc[t] = "reloc" /\ ctx[t].saw = "Relocating"

\* C8: bounded wait.  A transaction that has ended, by commit or by
\* rollback, leaves no record Relocating behind: when no dlopen is in flight
\* no record of `all` has state Relocating (such a record is never reset,
\* and every later dlopen of its name spins in the dedup loop).
C8_NoneLeftRelocating ==
  InFlight = 0 => \A i \in DOMAIN all : all[i].state # RELOCATING

\* The progress property of C8 itself, for SpecRelocFair: under fair
\* scheduling, a record that is Relocating is later Relocated or gone from
\* `all`.
C8_RelocatingEnds ==
  \A n \in {"b", "x", "p"} :
    (\E i \in DOMAIN all :
       all[i].lib.name = n /\ all[i].state = RELOCATING)
    ~> (\A i \in DOMAIN all :
          all[i].lib.name = n => all[i].state = RELOCATED)

\* C9: state monotonicity.  A record that is Relocated is Relocated after
\* every step that keeps it in `all`.
C9_RelocatedStays ==
  [][\A i \in DOMAIN all, j \in DOMAIN all' :
       (all[i].lib = all'[j].lib /\ all[i].state = RELOCATED)
       => all'[j].state = RELOCATED]_vars

\* C10: in-progress visibility.  A library that a transaction in its
\* relocation phase has loaded and not yet relocated is in `all` with state
\* Relocating.
C10_InProgressRelocating ==
  \A t \in Threads :
    pc[t] \in {"snap", "reloc"}
    => \A k \in DOMAIN ctx[t].new_libs :
         ~ctx[t].new_libs[k].taken
         => \E i \in DOMAIN all :
              /\ all[i].lib = ctx[t].new_libs[k].lib
              /\ all[i].state = RELOCATING

\* C11: flag promotion.  A dlopen(N, GLOBAL) that returns the registered
\* library N leaves N in the global scope, and a dlopen(N) without GLOBAL
\* that returns it removes nothing from the global scope.
C11_PromotedIsGlobal ==
  [][\A t \in Threads, path \in OpenPaths, flags \in OpenFlagSets :
       DedupHit(t, path, flags)
       => /\ "GLOBAL" \in flags => ShortName(path) \in GlobalNames(global')
          /\ "GLOBAL" \notin flags => global' = global]_vars

\* C12: flags only accumulate.  A record that stays in `all` keeps the
\* GLOBAL and the NODELETE it has.
C12_FlagsAccumulate ==
  [][\A i \in DOMAIN all, j \in DOMAIN all' :
       all[i].lib = all'[j].lib
       => (all[i].flags \cap Promotable) \subseteq all'[j].flags]_vars

\* C13: NODELETE is honoured.  The drop of a handle removes from `all` and
\* from `global`, and finalizes, no library whose registry flags contain
\* NODELETE.
C13_NodeleteStays ==
  [][BagCardinality(handles') < BagCardinality(handles)
     => \A i \in DOMAIN all :
          "NODELETE" \in all[i].flags
          => /\ all[i].lib \in Libs(all')
             /\ all[i].lib \in Range(global) => all[i].lib \in Range(global')
             /\ all[i].lib.base \notin finalized']_vars

\* C14: implicit NODELETE.  A record inserted in `all` under a short name
\* that starts with one of the runtime patterns libc, libpthread, libdl,
\* libgcc_s, ld-linux, ld-musl has NODELETE in its flags, whatever flags
\* the caller passed.
C14_RuntimeIsNodelete ==
  [][\A j \in DOMAIN all' :
       (/\ all'[j].lib \notin Libs(all)
        /\ \E pat \in { "libc", "libpthread", "libdl", "libgcc_s",
                        "ld-linux", "ld-musl" } :
             /\ Len(pat) <= Len(all'[j].lib.name)
             /\ SubSeq(all'[j].lib.name, 1, Len(pat)) = pat)
       => "NODELETE" \in all'[j].flags]_vars

\* C16: searchlist closure.  Every Relocated record has its searchlist set;
\* the list starts with the library itself, holds no library twice, and
\* holds, for every member, a library of every name the member needs.
C16_SearchlistClosed ==
  \A i \in DOMAIN all :
    is_relocated(all[i].state)
    => LET sl == all[i].deps.libs
       IN /\ all[i].deps # NoDeps
          /\ sl[1] = all[i].lib
          /\ \A j, k \in DOMAIN sl : sl[j] = sl[k] => j = k
          /\ \A j \in DOMAIN sl :
               \A n \in Range(Needed(sl[j].name)) :
                 \E k \in DOMAIN sl : sl[k].name = n

\* Host scenario: init() beside calls of dlopen("b"), this() and
\* dlsym_default.
NextHost ==
  \/ Open({<<"b">>}, {{}})
  \/ Adopt
  \/ Lookup
  \/ Relocate
  \/ Drop

SpecHost == Init /\ [][NextHost]_vars

\* NOLOAD scenario: x and p opened with and without RTLD_NOLOAD.
NoloadFlagSets == { {}, {"GLOBAL"}, {"NOLOAD"} }

NextNoload ==
  \/ Open(RelocPaths, NoloadFlagSets)
  \/ OpenFails(RelocPaths, NoloadFlagSets)
  \/ Relocate
  \/ RelocateFails
  \/ Drop

SpecNoload == Init /\ [][NextNoload]_vars

\* Symbol scenario: b and libc.so.6 (both define f) opened global, beside
\* init() and calls of dlsym_default.
SymbolPaths == { <<"b">>, <<"libc.so.6">> }

NextSymbols ==
  \/ Open(SymbolPaths, {{"GLOBAL"}})
  \/ Adopt
  \/ Resolve
  \/ Relocate

SpecSymbols == Init /\ [][NextSymbols]_vars

\* Private scenario: b opened with and without CUSTOM_NOT_REGISTER.
PrivateFlagSets == { {}, {"NOT_REGISTER"} }

NextPrivate ==
  \/ Open({<<"b">>}, PrivateFlagSets)
  \/ OpenFails({<<"b">>}, PrivateFlagSets)
  \/ Relocate
  \/ Drop

SpecPrivate == Init /\ [][NextPrivate]_vars

\* $ORIGIN scenario: fixup_rpath on lists of one or two entries.
LibPaths == { "/opt/app/lib/libA.so", "/libA.so", "libA.so" }

RpathEntries == { "$ORIGIN", "$ORIGIN/../ext", "${ORIGIN}/ext", "/usr/lib",
                  "$LIB/ext", "" }

RpathStrings ==
  RpathEntries \cup { e1 \o ":" \o e2 : e1, e2 \in RpathEntries }

NextOrigin ==
  \E lib_path \in LibPaths, rpath \in RpathStrings :
    FixupRpath(lib_path, rpath)

SpecOrigin == Init /\ [][NextOrigin]_vars

\* Search scenario: libn.so is looked for on behalf of a parent with or
\* without DT_RPATH and DT_RUNPATH, under every choice of LD_LIBRARY_PATH,
\* of the cache entry and of the set of places where the file exists.
SearchEnvs ==
  { [LD_BIND_NOW |-> "unset", LD_LIBRARY_PATH |-> ld, LD_CACHE |-> cache,
     files |-> fs] :
      ld \in { <<>>, <<"/l">> },
      cache \in { <<>>, <<"/c/libn.so">> },
      fs \in SUBSET { "/r/libn.so", "/l/libn.so", "/u/libn.so",
                      "/c/libn.so", "/lib/libn.so" } }

Parents ==
  { [name |-> "/opt/libA.so", rpath |-> r, runpath |-> ru] :
      r \in { "none", "/r" }, ru \in { "none", "/u", "$LIB/u" } }

NextSearch == \E parent \in Parents : FindLibrary(parent, "libn.so")

SpecSearch ==
  (\E e \in SearchEnvs : Boot(NoHistory, e)) /\ [][NextSearch]_vars

\* Binding scenario: LD_BIND_NOW unset, empty or "1"; a library is bound
\* before, during or after init().
NextBind ==
  \/ Adopt
  \/ \E flags \in SUBSET {"NOW", "LAZY"}, lib_is_lazy \in BOOLEAN :
       BindLibrary(flags, lib_is_lazy)

SpecBind ==
  /\ \E v \in {"unset", "", "1"} :
       Boot(NoHistory, [Env0 EXCEPT !.LD_BIND_NOW = v])
  /\ [][NextBind]_vars

\* DEEPBIND scenario: p is opened global, a (which needs b) local or global,
\* with and without RTLD_DEEPBIND; b and p both define f.
NextDeepbind ==
  \/ Open({<<"opt", "p">>}, {{"GLOBAL"}})
  \/ Open({<<"a">>}, {{}, {"DEEPBIND"}, {"GLOBAL"}, {"GLOBAL", "DEEPBIND"}})
  \/ Relocate
  \/ Drop

SpecDeepbind == Init /\ [][NextDeepbind]_vars

\* Destructor scenario: p is opened and dropped while destructors are
\* registered and __cxa_finalize is called: handles are inside the first
\* mapping or outside every mapping, and null for __cxa_finalize.
DsoHandles == { MappedLen + off : off \in 0..(MappedLen - 1) } \cup {99}

Atexit ==
  \/ \E h \in DsoHandles : register_atexit(h)
  \/ \E h \in DsoHandles \cup {NULL} : cxa_finalize(h)

NextAtexit ==
  \/ Open({<<"opt", "p">>}, {{}})
  \/ Relocate
  \/ Drop
  \/ Atexit

SpecAtexit == Init /\ [][NextAtexit]_vars

\* Debugger scenario: nodes are added and dropped before, during and after
\* init().
NextDebug == Adopt \/ DebugList

SpecDebug == Init /\ [][NextDebug]_vars

\* Debugger protocol scenario: nodes are added and dropped, seen at each
\* call of brk, before, during and after init().
NextProtocol == (call = NoCall /\ Adopt) \/ DebugEvents

SpecProtocol == Init /\ [][NextProtocol]_vars

\* Epoch scenario: p and x (needs b and p, fails in relocation) opened and
\* dropped while user threads enumerate the registry.
NextEpoch ==
  \/ Open(RelocPaths, {{}})
  \/ OpenFails(RelocPaths, {{}})
  \/ Relocate
  \/ RelocateFails
  \/ Drop
  \/ Enumerate

SpecEpoch == Init /\ [][NextEpoch]_vars

\* Lazy-binding scenario: a (needs b) and b opened and dropped; the closure
\* of one of the libraries is called at any later moment.
NextLazy == Open({<<"a">>, <<"b">>}, {{}}) \/ Relocate \/ Drop \/ LazyBind

SpecLazy == Init /\ [][NextLazy]_vars

\* C interface scenario: a (needs b) and b opened with dlopen and closed
\* with dlclose.
NextCInterface ==
  Open({<<"a">>, <<"b">>}, {{}}) \/ Relocate \/ CInterface

SpecCInterface == Init /\ [][NextCInterface]_vars

\* Adoption scenario: init(), called again and again, beside opens and drops
\* of the libc.so.6 found in the search directories.
NextAdopt ==
  \/ Open({<<"libc.so.6">>}, OpenFlagSets)
  \/ Adopt
  \/ InitAgain
  \/ Relocate
  \/ Drop

SpecAdopt == Init /\ [][NextAdopt]_vars

\* Order scenario: r needs a, a needs b; each of them is opened and dropped,
\* beside global opens of x that fail (p is not found).
NextOrder ==
  \/ Open({<<"a">>, <<"b">>, <<"r">>}, {{}})
  \/ OpenFails({<<"x">>}, {{"GLOBAL"}})
  \/ Relocate
  \/ Drop

SpecOrder == Init /\ [][NextOrder]_vars

\* Cycle scenario: c needs d and d needs c; b needs nothing.
NextCycle ==
  \/ Open({<<"b">>, <<"c">>}, {{}})
  \/ Relocate
  \/ RelocateAborts
  \/ Drop

SpecCycle == Init /\ [][NextCycle]_vars

\* Cap scenario: one transaction registers new library after new library.
SpecCap == Init /\ [][RegisterNext]_vars

\* Cascade scenario: s needs b and a, a needs b; s is opened and dropped.
NextCascade ==
  \/ Open({<<"s">>}, {{}})
  \/ Relocate
  \/ Drop

SpecCascade == Init /\ [][NextCascade]_vars

\* C17: dependency presence.  While no transaction is between registering
\* and committing, every name a record of `all` needs is a key of `all`.
C17_NeededPresent ==
  (\A t \in Threads : pc[t] \in {"idle", "spin"})
  => \A i \in DOMAIN all :
       Range(Needed(all[i].lib.name)) \subseteq Names(all)

\* C18: global is a subset of all.  Every library of `global` is the
\* library `all` holds under the same short name.
C18_GlobalInAll ==
  \A i \in DOMAIN global : global[i] \in Libs(all)

\* C19: main executable anchoring.  Once the host adoption is complete the
\* record at index 0 of `all` is the main executable and it is in
\* `global`; this() returns the main executable, or an error when `all`
\* holds no record of the main executable.
C19_MainAnchored ==
  [][/\ Adopted'
        => /\ all' # <<>>
           /\ is_main(all'[1].lib)
           /\ all'[1].lib \in Range(global')
     /\ \A t \in Threads :
          This(t)
          => IF \E i \in DOMAIN all : is_main(all[i].lib)
             THEN is_main(ret'.lib)
             ELSE ret'.lib = NoLib]_vars

\* C20: NOLOAD.  A dlopen with RTLD_NOLOAD of a name that is not in the
\* registry fails without loading an object and leaves `all`, `global`,
\* `adds` and `subs` as they were.
C20_NoloadChangesNothing ==
  [][\A t \in Threads, path \in RelocPaths, flags \in NoloadFlagSets :
       (/\ "NOLOAD" \in flags
        /\ Existing(path) = 0
        /\ LoadFail(t, path, flags))
       => /\ all' = all
          /\ global' = global
          /\ adds' = adds
          /\ subs' = subs
          /\ nextBase' = nextBase]_vars

\* C15: global scope ordering.  Of two libraries that define the same
\* symbol, no step puts one into `global` ahead of the other that was
\* there before it, or changes the order of two that stay;
\* dlsym_default(S) returns S from the first library of `global`
\* that defines S, and reports not-found only when none defines S.
C15_EarliestGlobalWins ==
  [][/\ \A i, j \in DOMAIN global' :
          (/\ i < j
           /\ global'[j] \in Range(global)
           /\ Defines(global'[i].name) \cap Defines(global'[j].name) # {})
          => \E k, l \in DOMAIN global :
               k < l /\ global[k] = global'[i] /\ global[l] = global'[j]
     /\ \A t \in Threads, name \in Symbols :
          dlsym_default(t, name)
          => LET definers == { l \in Range(global) : name \in Defines(l.name) }
             IN IF definers = {} THEN ret'.lib = NoLib
                ELSE /\ ret'.lib \in definers
                     /\ \A k \in DOMAIN global :
                          k < GlobalPos(global, ret'.lib)
                          => global[k] \notin definers]_vars

\* C21: NOT_REGISTER bypass.  A dlopen with CUSTOM_NOT_REGISTER of a file
\* that exists does not fail, does not return the registered library and
\* leaves `all`, `global` and `adds` as they were; the drop of a handle
\* that has the flag leaves `all`, `global` and `subs` as they were.
C21_PrivateBypass ==
  [][/\ \A t \in Threads, flags \in PrivateFlagSets :
          "NOT_REGISTER" \in flags
          => /\ ~LoadFail(t, <<"b">>, flags)
             /\ ~DedupHit(t, <<"b">>, flags)
             /\ LoadOk(t, <<"b">>, flags)
                => all' = all /\ global' = global /\ adds' = adds
     /\ \A t \in Threads, h \in BagToSet(handles) :
          ("NOT_REGISTER" \in h.flags /\ DropHandle(t, h))
          => all' = all /\ global' = global /\ subs' = subs]_vars

\* C23: $ORIGIN expansion.  When every '$' of the string is followed by
\* ORIGIN or {ORIGIN}, the directories are the entries of the list with
\* both forms of the token replaced by the directory part of the path of
\* the library ("." when it has none), empty entries left out; with any
\* other '$' token the list of directories is empty.
C23_OriginExpanded ==
  call.fn = "fixup_rpath"
  => LET tokens == Tail(split(call.rpath, "$", 1, 1))
         origin == IF rsplit_once_dir(call.lib_path) = "none" THEN "."
                   ELSE rsplit_once_dir(call.lib_path)
         listed == split(call.rpath, ":", 1, 1)
         expanded == [k \in DOMAIN listed |->
                        replace(replace(listed[k], "${ORIGIN}", origin, 1),
                                "$ORIGIN", origin, 1)]
         entries == SelectSeq(expanded, LAMBDA e : e # "")
     IN IF \A k \in DOMAIN tokens :
             \/ starts_with(tokens[k], "ORIGIN")
             \/ starts_with(tokens[k], "{ORIGIN}")
        THEN call.dirs = entries
        ELSE call.dirs = <<>>

\* C22: search order.  The places tried are, in this order, the RPATH
\* directories of the parent (only when the parent has no RUNPATH), the
\* LD_LIBRARY_PATH directories, the RUNPATH directories of the parent, the
\* cache hit and the default directories, up to and including the first
\* one where the file loads; when none loads the result is an error that
\* names the short name.
C22_SearchOrder ==
  call.fn = "find_library"
  => LET at(dirs) == [k \in DOMAIN dirs |-> dirs[k] \o "/" \o call.lib_name]
         dirs_of(str) == IF str = "none" THEN <<>>
                         ELSE fixup_rpath(call.parent.name, str)
         places == (IF call.parent.runpath = "none"
                    THEN at(dirs_of(call.parent.rpath)) ELSE <<>>)
                   \o at(env.LD_LIBRARY_PATH)
                   \o at(dirs_of(call.parent.runpath))
                   \o env.LD_CACHE
                   \o at(<<"/lib", "/usr/lib">>)
         loads == { k \in DOMAIN places : places[k] \in env.files }
     IN IF loads = {}
        THEN call.found = "" /\ call.err = call.lib_name
        ELSE \E k \in loads :
               /\ \A j \in loads : k <= j
               /\ call.found = places[k]
               /\ call.tried = SubSeq(places, 1, k)

\* C24: binding-mode precedence.  A library is bound eagerly when
\* LD_BIND_NOW has a non-empty value or the caller passed NOW; otherwise
\* lazily when the caller passed LAZY; otherwise as the object says.
C24_BindPrecedence ==
  call.fn = "relocate"
  => call.is_lazy
       = IF env.LD_BIND_NOW \notin {"unset", ""} \/ "NOW" \in call.flags
         THEN FALSE
         ELSE IF "LAZY" \in call.flags THEN TRUE ELSE call.lib_is_lazy

\* C25: DEEPBIND scope order.  While a call relocates a library, a symbol
\* defined both by a library of the global scope and by another library of
\* the searchlist is bound to the searchlist definition if and only if
\* DEEPBIND was requested, otherwise to the global one, and the lazy
\* closure gives the same library.
C25_DeepbindOrder ==
  \A t \in Threads, name \in Symbols :
    Relocating(t)
    => LET c == ctx[t]
           local == global_find(c.deps.libs, name)
           glob == global_find(c.global_libs, name)
           bound == global_find(relocate_scope(c), name)
       IN (local # NoLib /\ glob # NoLib /\ local # glob)
          => /\ bound = local <=> "DEEPBIND" \in c.flags
             /\ bound = glob <=> "DEEPBIND" \notin c.flags
             /\ lazy_scope(c, c.global_libs, name) = bound

C25_Witness ==
  \E t \in Threads :
    /\ Relocating(t)
    /\ "DEEPBIND" \in ctx[t].flags
    /\ global_find(ctx[t].deps.libs, "f") # NoLib
    /\ global_find(ctx[t].global_libs, "f") # NoLib
    /\ global_find(ctx[t].deps.libs, "f")
         # global_find(ctx[t].global_libs, "f")

\* C26: destructor drain.  __cxa_finalize(h) runs the queued entries whose
\* dso_handle equals h or lies in the mapping of the library that contains
\* h (every entry when h is null), in reverse registration order, after
\* what ran before; the other entries stay queued in their order; and no
\* entry is ever run twice.
InMapping(a, h, addr) ==
  \E i \in DOMAIN a :
    /\ a[i].lib.base * MappedLen <= h
    /\ h < (a[i].lib.base + 1) * MappedLen
    /\ a[i].lib.base * MappedLen <= addr
    /\ addr < (a[i].lib.base + 1) * MappedLen

Drained(h) ==
  LET hit(d) == h = NULL \/ d.dso_handle = h \/ InMapping(all, h, d.dso_handle)
      run == SelectSeq(DESTRUCTORS, hit)
      kept == SelectSeq(DESTRUCTORS, LAMBDA d : ~hit(d))
  IN /\ Len(ran') = Len(ran) + Len(run)
     /\ \A i \in 1..Len(ran) : ran'[i] = ran[i]
     /\ \A i \in 1..Len(run) :
          ran'[Len(ran) + i] = run[Len(run) + 1 - i]
     /\ DESTRUCTORS' = kept
     /\ \A i, j \in 1..Len(ran') : ran'[i].id = ran'[j].id => i = j
     /\ \A i \in 1..Len(ran'), j \in 1..Len(DESTRUCTORS') :
          ran'[i].id # DESTRUCTORS'[j].id

C26_DestructorDrain ==
  [][\A h \in DsoHandles \cup {NULL} : cxa_finalize(h) => Drained(h)]_vars

C26_Witness ==
  /\ call.fn = "finalize"
  /\ call.dso_handle # NULL
  /\ Len(ran) >= 2
  /\ ran[1].id > ran[2].id
  /\ ran[1].dso_handle # ran[2].dso_handle
  /\ DESTRUCTORS # <<>>

\* C27: debugger consistency.  After any insertions and removals the chain
\* of the r_debug in use is a valid doubly-linked list: the walk forward
\* from r_debug.map and the walk back from the tracked tail reach the same
\* nodes, neighbours point at each other, the tail is the last node; and
\* r_debug.state is RT_CONSISTENT.
RECURSIVE Walk(_, _, _)
Walk(cur, dir, fuel) ==
  IF cur = NULL \/ fuel = 0 THEN {}
  ELSE {cur} \cup Walk(IF dir = "next" THEN link_map[cur].l_next
                        ELSE link_map[cur].l_prev, dir, fuel - 1)

C27_DebuggerConsistent ==
  LET d == r_debug[DEBUG.debug]
      fwd == Walk(d.map, "next", Cardinality(Nodes))
      back == Walk(DEBUG.tail, "prev", Cardinality(Nodes))
  IN /\ d.state = RT_CONSISTENT
     /\ fwd = back
     /\ \A n \in fwd :
          /\ link_map[n].l_next # NULL
               => link_map[link_map[n].l_next].l_prev = n
          /\ link_map[n].l_prev # NULL
               => link_map[link_map[n].l_prev].l_next = n
     /\ DEBUG.tail = last_node(link_map, d.map)

\* C28: host adoption is single-shot.  The adoption never runs again once
\* it is complete; from then on every adopted host object has exactly one
\* record, Relocated, with GLOBAL and NODELETE, in `global`, with its
\* searchlist set; and an init() called later leaves the registry as it is.
HostRegistered ==
  \A k \in DOMAIN HostObjects :
    LET recs == { i \in DOMAIN all : all[i].lib.name = HostObjects[k].name }
    IN /\ Cardinality(recs) = 1
       /\ \A i \in recs :
            /\ all[i].lib = HostObjects[k]
            /\ all[i].state = RELOCATED
            /\ HostFlags \subseteq all[i].flags
            /\ all[i].deps # NoDeps
       /\ GlobalIdx(global, HostObjects[k].name) # 0

C28_AdoptionOnce ==
  [][/\ Adopted => Adopted'
     /\ Adopted' => HostRegistered'
     /\ InitAgain => UNCHANGED registry]_vars

\* C29: relocation order.  The order computed for a call is a permutation
\* of the indices of all its new libraries, every new library comes after
\* the new libraries it needs, and a call commits only when each of its new
\* libraries has been relocated.
OrderComplete(c) ==
  /\ Len(c.order) = Len(c.new_libs)
  /\ \A i \in DOMAIN c.new_libs : \E p \in DOMAIN c.order : c.order[p] = i - 1

OrderSorted(c) ==
  \A p, q \in DOMAIN c.order :
    c.new_libs[c.order[q] + 1].lib.name
      \in Range(Needed(c.new_libs[c.order[p] + 1].lib.name))
    => q < p

C29_RelocationOrder ==
  [][\A t \in Threads :
       /\ pc'[t] \in {"snap", "reloc"}
            => OrderComplete(ctx'[t]) /\ OrderSorted(ctx'[t])
       /\ Commit(t) => \A i \in DOMAIN ctx[t].new_libs : ctx[t].new_libs[i].taken
    ]_vars

\* C30: cycle breaking.  With a cycle among the new libraries the computed
\* order lists every new library exactly once, and no call ends by taking
\* for relocation a library that was already taken.
C30_CycleBroken ==
  \A t \in Threads :
    /\ pc[t] \in {"snap", "reloc"}
         => /\ Len(ctx[t].order) = Len(ctx[t].new_libs)
            /\ \A i \in DOMAIN ctx[t].new_libs :
                 Cardinality({ p \in DOMAIN ctx[t].order :
                                 ctx[t].order[p] = i - 1 }) = 1
    /\ pc[t] # "panicked"

\* C31: per-transaction cap.  A transaction that goes beyond 254 new
\* libraries fails with an error; the state given to the library at index i
\* of new_libs is NewIndex(i), below 254, so no two libraries of a
\* transaction share an index.
C31_NewIndexCap ==
  call.fn = "register_new"
  => /\ call.status \in {"ok", "err"}
     /\ call.status = "ok"
          => call.state = call.new_idx /\ call.state < RELOCATING
     /\ call.new_idx >= RELOCATING => call.status = "err"

\* C32: dependency cascade.  When a drop removes the root of its handle,
\* every library of the handle's searchlist that is registered, is not
\* NODELETE, has no live user handle left and is in the searchlist of no
\* remaining record is removed from `all` and `global` by the same drop, and
\* `subs` grows by the number of records removed.  No dlopen is in progress.
Orphaned(dep, h) ==
  /\ \A t \in Threads : pc[t] = "idle"
  /\ AllIdx(all, dep.name) # 0
  /\ all[AllIdx(all, dep.name)].lib = dep
  /\ "NODELETE" \notin all[AllIdx(all, dep.name)].flags
  /\ \A g \in BagToSet(handles') : g.inner # dep
  /\ \A i \in DOMAIN all' :
       all'[i].lib # dep => dep \notin Range(all'[i].deps.libs)

C32_DependencyCascade ==
  [][\A t \in Threads, h \in BagToSet(handles) :
       (DropHandle(t, h) /\ AllIdx(all, h.inner.name) # 0
                        /\ AllIdx(all', h.inner.name) = 0)
       => /\ \A k \in DOMAIN h.deps.libs :
               Orphaned(h.deps.libs[k], h)
               => /\ AllIdx(all', h.deps.libs[k].name) = 0
                  /\ GlobalIdx(global', h.deps.libs[k].name) = 0
          /\ subs' = subs + Len(all) - Len(all')]_vars

\* C33: unload ordering.  The destructors that a handle drop runs belong to
\* a library the drop has removed: when they run, no record of `all` and no
\* entry of `global` is that library and the write lock is free; the
\* entries of one library run latest registration first.
RunByDrop == { i \in DOMAIN ran' : i > Len(ran) }

Chain(lm, r) ==
  [map |-> [d \in DOMAIN r |-> r[d].map],
   links |-> [n \in Nodes |-> <<lm[n].l_prev, lm[n].l_next>>]]

C34_DebuggerProtocol ==
  [][Chain(link_map', r_debug') # Chain(link_map, r_debug)
     => /\ r_debug[DEBUG.debug].state \in {RT_ADD, RT_DELETE}
        /\ r_debug'[DEBUG'.debug].state = RT_CONSISTENT]_vars

\* C35: epoch counters.  adds and subs never decrease; a step adds to adds
\* the number of records it inserts into `all` (one for each library it maps,
\* also when the step ends by rolling them back), and a handle drop adds to
\* subs the number of records it removes; the callbacks of one enumeration
\* all get the pair read when the enumeration took the read lock.
InsertedBy(a, b) ==
  Cardinality({ i \in DOMAIN b : \A j \in DOMAIN a : a[j].lib # b[i].lib })

RemovedBy(a, b) ==
  Cardinality({ j \in DOMAIN a : \A i \in DOMAIN b : a[j].lib # b[i].lib })

C35_EpochCounters ==
  [][/\ adds' >= adds
     /\ subs' >= subs
     /\ adds' = adds + (nextBase' - nextBase)
     /\ InsertedBy(all, all') > 0 => adds' = adds + InsertedBy(all, all')
     /\ \A t \in Threads, h \in BagToSet(handles) :
          DropHandle(t, h) => subs' = subs + RemovedBy(all, all')
     /\ \A t \in Threads :
          dl_iterate_phdr(t)
          => \A i \in DOMAIN call'.infos :
               /\ call'.infos[i].dlpi_adds = adds
               /\ call'.infos[i].dlpi_subs = subs]_vars

\* C40: the epoch detects every change.  When two successive enumerations
\* both made callbacks and saw different sets of short names, the pairs
\* (adds, subs) they handed out differ.
InfoNames(infos) == { infos[i].name : i \in DOMAIN infos }

Epoch(infos) == <<infos[1].dlpi_adds, infos[1].dlpi_subs>>

C40_EpochDetectsChange ==
  (/\ call.fn = "dl_iterate_phdr"
   /\ call.infos # <<>>
   /\ call.before # <<>>
   /\ InfoNames(call.infos) # InfoNames(call.before))
  => Epoch(call.infos) # Epoch(call.before)

\* C36: lazy-binding safety.  A call of the lazy-binding closure of a
\* library that is still registered never panics: every weak reference it
\* upgrades is to a library that is still alive.
C36_LazyBindingSafe ==
  call.fn = "lazy_find" => call.status # "panic"

\* C37: pairing of the C handles.  A dlclose on one handle of a library
\* leaves the library in `all`, not finalised, while other handles returned
\* by dlopen for it are open; the dlclose on its last handle removes it when
\* it is not NODELETE; and the return of dlopen removes nothing.
COpen(hs, lib) ==
  LET own == { c \in BagToSet(hs) : c.inner = NoLib /\ c.deps.libs[1] = lib }
  IN IF own = {} THEN 0 ELSE BagCardinality([c \in own |-> hs[c]])

Registered(a, lib) == \E i \in DOMAIN a : a[i].lib = lib

C37_CHandlePairing ==
  [][/\ \A t \in Threads, c \in BagToSet(handles) :
          dlclose(t, c)
          => LET lib == c.deps.libs[1]
             IN /\ (COpen(handles', lib) > 0 /\ Registered(all, lib))
                   => Registered(all', lib) /\ lib.base \notin finalized'
                /\ (/\ COpen(handles', lib) = 0
                    /\ Registered(all, lib)
                    /\ "NODELETE" \notin all[AllIdx(all, lib.name)].flags
                    /\ \A u \in Threads : pc[u] = "idle"
                    /\ \A h \in BagToSet(handles') :
                         lib \notin Range(h.deps.libs) /\ h.inner # lib
                    /\ \A k \in DOMAIN all :
                         all[k].lib # lib => lib \notin Range(all[k].deps.libs))
                   => ~Registered(all', lib)
     /\ \A t \in Threads, h \in BagToSet(handles) :
          dlopen(t, h) => all' = all /\ finalized' = finalized]_vars

\* C38: a failed dlopen leaves the records it found untouched.  When a call
\* that started with every record of `all` in place fails while loading,
\* each of those records is still there with the state, the flags and the
\* membership of `global` it had.
Untouched(a, g, a2, g2) ==
  \A i \in DOMAIN a :
    /\ \E j \in DOMAIN a2 : /\ a2[j].lib = a[i].lib
                             /\ a2[j].state = a[i].state
                             /\ a2[j].flags = a[i].flags
    /\ (a[i].lib \in Range(g)) <=> (a[i].lib \in Range(g2))

C38_FailureLeavesRecords ==
  [][\A t \in Threads, path \in OpenPaths, flags \in OpenFlagSets :
       (pc[t] = "idle" /\ LoadFail(t, path, flags))
       => Untouched(all, global, all', global')]_vars

\* C39: flags and scope agree.  When no call is in progress, a record other
\* than the main executable has GLOBAL in its flags exactly when its short
\* name is a key of `global`.
C39_FlagScopeAgreement ==
  (\A t \in Threads : pc[t] = "idle")
  => \A i \in DOMAIN all :
       ~is_main(all[i].lib)
       => (("GLOBAL" \in all[i].flags)
           <=> (GlobalIdx(global, all[i].lib.name) # 0))

====
